---- MODULE Spec2Model ----
\* Verification model of py-logician: handler reconciliation
\* (logician.stdlog.utils.simple_handlr_cfgr), the level-resolving logger
\* configurators with their clones (vt.utils.logging.lib_logging /
\* logician.configurators) and the verbosity / quietness component
\* (vt.utils.logging.logging.configurators).
EXTENDS Integers, Sequences, FiniteSets, TLC

\* ---------------------------------------------------------------------------
\* Bounds of the model
\* ---------------------------------------------------------------------------
\* largest number of handlers a caller attaches to the logger by hand
MaxHandlers == 2

\* ---------------------------------------------------------------------------
\* Values
\* ---------------------------------------------------------------------------
Streams == {"stderr", "stdout"}
NoStream == "no-stream"
NoFormatter == 0
NoCall == [op |-> "none"]

TRACE_LOG_LEVEL == 5
DEBUG == 10
INFO == 20
WARNING == 30

ERROR == 40
CRITICAL == 50

\* Python values a level can be: None, an int, a str
PyNone == [ty |-> "NoneType", n |-> 0, s |-> ""]
PyInt(n) == [ty |-> "int", n |-> n, s |-> ""]
PyStr(s) == [ty |-> "str", n |-> 0, s |-> s]
\* bool(v)
Truthy(v) == v # PyNone /\ v # PyStr("") /\ v # PyInt(0)

\* str.isdigit() and int(str), on the digit strings of the model
DigitStrings == ("10" :> DEBUG) @@ ("20" :> INFO)

\* logging.getLevelNamesMapping() once register_levels has run
LevelNamesMapping ==
    ("TRACE" :> TRACE_LOG_LEVEL) @@ ("DEBUG" :> DEBUG) @@ ("INFO" :> INFO)
    @@ ("WARNING" :> WARNING) @@ ("ERROR" :> ERROR) @@ ("CRITICAL" :> CRITICAL)

\* VQLoggerConfigurator.VQ_LEVEL_MAP (qqq maps to FATAL_LOG_LEVEL and is not
\* among the tokens of the model)
VQ_LEVEL_MAP ==
    ("v" :> INFO) @@ ("vv" :> DEBUG) @@ ("vvv" :> TRACE_LOG_LEVEL)
    @@ ("q" :> ERROR) @@ ("qq" :> CRITICAL)

VT_ALL_LOG_ENV_VAR == "VT_ALL_LOG"

\* propagate as the reconciler is called with: the default of the parameter
PropagateArgs == {FALSE}

\* levels the reconciler is called with
CallLevels == {DEBUG, WARNING}

\* StdLogAllLevelDiffFmt.DEFAULT_LOGGER_DICT
DEFAULT_LOGGER_DICT ==
    (TRACE_LOG_LEVEL :> "TIMED_DETAIL_LOG_FMT") @@ (DEBUG :> "DETAIL_LOG_FMT")
    @@ (INFO :> "SHORT_LOG_FMT") @@ (WARNING :> "SHORTER_LOG_FMT")

SetMax(S) == CHOOSE x \in S : \A y \in S : y <= x
SetMin(S) == CHOOSE x \in S : \A y \in S : x <= y

\* a next_approx_level that answers the largest registered level always
next_approx_level_max(fmt_dict, missing_level) == SetMax(DOMAIN fmt_dict)

\* StdLogAllLevelDiffFmt.next_approx_level
next_approx_level(fmt_dict, missing_level) ==
    LET max_level == SetMax(DOMAIN fmt_dict)
        above == {l \in DOMAIN fmt_dict : l > missing_level}
    IN IF missing_level >= max_level THEN max_level
       ELSE IF above # {} THEN SetMin(above) ELSE max_level

\* LogLevelFmt objects: StdLogAllLevelSameFmt(fmt) and StdLogAllLevelDiffFmt()
SameFmt(f) == [cls |-> "StdLogAllLevelSameFmt", fmt |-> f]
DiffFmt == [cls |-> "StdLogAllLevelDiffFmt", fmt |-> ""]
LevelFmts == {SameFmt("%(name)s"), DiffFmt}

\* LogLevelFmt.fmt(level)
Fmt(lvl_fmt, level) ==
    IF lvl_fmt.cls = "StdLogAllLevelSameFmt" THEN lvl_fmt.fmt
    ELSE LET final_level == IF level \in DOMAIN DEFAULT_LOGGER_DICT THEN level
                            ELSE next_approx_level(DEFAULT_LOGGER_DICT, level)
         IN DEFAULT_LOGGER_DICT[final_level]

\* stream_fmt_map: a dict, modelled as the sequence of its items in iteration
\* (insertion) order; keys are distinct
StreamFmtMaps ==
    {<<>>}
    \cup {<<[stream |-> s, fmt |-> f]>> : s \in Streams, f \in LevelFmts}
    \cup {<<[stream |-> s1, fmt |-> f1], [stream |-> s2, fmt |-> f2]>> :
            s1 \in Streams, s2 \in Streams, f1 \in LevelFmts, f2 \in LevelFmts}

DistinctKeys(m) == \A i, j \in 1..Len(m) : i # j => m[i].stream # m[j].stream
MapKeys(m) == {m[i].stream : i \in 1..Len(m)}
MapGet(m, s) == (CHOOSE i \in 1..Len(m) : m[i].stream = s)

\* ---------------------------------------------------------------------------
\* State
\* ---------------------------------------------------------------------------
VARIABLES
    handlers,    \* logger.handlers: sequence of handler objects
    formatters,  \* logging.Formatter objects: formatter id -> its _fmt
    propagate,   \* logger.propagate
    lastCall,    \* the last call of simple_handlr_cfgr, NoCall if another operation came last
    created,     \* the streams that got one more handler in the last operation
    preSlot,     \* stream -> the state of its slot right before the last operation
    preLen,      \* the number of handlers right before the last operation
    twice,       \* the last two operations were the same call with a one-stream map
                 \* whose stream had no handler before the first of them
    growing,     \* every operation so far was a call with a non-empty map
                 \* containing the streams of the call before
    env,         \* os.environ: variable name -> its value, PyNone when unset
    pick,        \* one call of a level pickup: its inputs and what it returned
    vqCall,      \* one call of VQSepExclusive / VQCommon: its inputs and what it gave
    loggerLevel, \* logger.level
    std,         \* the StdLoggerConfigurator object at the bottom of the chain
    dec,         \* the configurator object that decorates std, NoDec if none
    ctorLevel,   \* the level an EnvListLC in dec would have picked up when it was constructed
    pushed,      \* the levels the last (at most two) configure calls of dec pushed into std
    last,        \* the last operation on the chain: the calls it made on std, in
                 \* order, the warnings it emitted and the exception it raised
    lists,       \* Python list objects: list id -> its items
    cfgs,        \* the decorator objects made and cloned: configurator id -> its fields
    cloned,      \* the last operation on cfgs, with the original as it was before it
    stds,        \* the StdLoggerConfigurator objects the objects of cfgs decorate
    nodes,       \* configurator objects that decorate one another: id -> class and
                 \* the id of the configurator underneath
    trav,        \* one configure call going down a chain of nodes: where it is and
                 \* the nodes whose configure it has called, in order
    levelNames,  \* logging's process-wide tables: level -> name and name -> level
    ctx,         \* one TempSetLevelName object and the with block it guards
    fmtCall,     \* one call of StdLogAllLevelDiffFmt.fmt: its inputs and what it returned
    repo,        \* DictRepo.repo: the index, a defaultdict or a plain dict
    file,        \* the file of the FilePersister: its text, NoFile before init
    repoCall     \* the last operation on the DictRepo, with the state before it

hvars == <<handlers, formatters, propagate, lastCall, created, preSlot, preLen, twice, growing>>
ghostvars == <<propagate, lastCall, created, preSlot, preLen, twice, growing>>
pickvars == <<pick, vqCall>>
chainvars == <<loggerLevel, std, dec, ctorLevel, pushed, last>>
clonevars == <<lists, cfgs, cloned, stds>>
nestvars == <<nodes, trav>>
namevars == <<levelNames, ctx>>
repovars == <<repo, file, repoCall>>
auxvars == <<nestvars, namevars, fmtCall, repovars>>
vars == <<handlers, formatters, propagate, lastCall, created, preSlot, preLen, twice, growing,
          env, pick, vqCall, loggerLevel, std, dec, ctorLevel, pushed, last, lists, cfgs, cloned, stds,
          nodes, trav, levelNames, ctx, fmtCall, repo, file, repoCall>>

\* ---------------------------------------------------------------------------
\* Object helpers
\* ---------------------------------------------------------------------------
\* the smallest identity not carried by a live object
NewId(used) == CHOOSE i \in 1..(Cardinality(used) + 1) :
                  i \notin used /\ \A j \in 1..(i - 1) : j \in used

HandlerIds(hs) == {hs[i].id : i \in 1..Len(hs)}
IndexOfId(hs, id) == CHOOSE i \in 1..Len(hs) : hs[i].id = id
IdsOf(hs) == [i \in 1..Len(hs) |-> hs[i].id]

\* logging.StreamHandler(stream) / logging.NullHandler(): a handler without formatter
NewHandler(hs, cls, stream) ==
    [id |-> NewId(HandlerIds(hs)), cls |-> cls, stream |-> stream, formatter |-> NoFormatter]

\* logger.addHandler(hdlr)
addHandler(hs, hdlr) == IF hdlr.id \in HandlerIds(hs) THEN hs ELSE Append(hs, hdlr)

\* a form_stream_handlers_map that records no handler
form_stream_handlers_map_none(hs) == [s \in {} |-> <<>>]

\* form_stream_handlers_map: stream -> handlers (ids) bound to it, in logger.handlers order
form_stream_handlers_map(hs) ==
    LET bound(s) == SelectSeq(hs, LAMBDA h : h.cls = "StreamHandler" /\ h.stream = s)
        keys == {hs[i].stream : i \in {j \in 1..Len(hs) : hs[j].cls = "StreamHandler"}}
    IN [s \in keys |-> IdsOf(bound(s))]

\* new_formatter (nested in simple_handlr_cfgr): a new StreamHandler with a new Formatter
new_formatter(hs, fm, stream, fmt) ==
    LET fid == NewId(DOMAIN fm)
        handlr == [NewHandler(hs, "StreamHandler", stream) EXCEPT !.formatter = fid]
    IN [handlers |-> addHandler(hs, handlr), formatters |-> fm @@ (fid :> fmt)]

\* an empty-map branch that forgets handlers.clear()
ClearAndAddNull_keep(hs) == addHandler(hs, NewHandler(hs, "NullHandler", NoStream))

\* the empty-map branch of simple_handlr_cfgr: handlers.clear(); addHandler(NullHandler())
ClearAndAddNull(hs) == addHandler(<<>>, NewHandler(<<>>, "NullHandler", NoStream))

\* an update that leaves the format of a handler that has a formatter as it is
UpdateFirstHandler_stale(hs, fm, hid, fmt) ==
    LET i == IndexOfId(hs, hid)
    IN IF hs[i].formatter # NoFormatter
       THEN [handlers |-> hs, formatters |-> fm]
       ELSE LET fid == NewId(DOMAIN fm)
            IN [handlers |-> [hs EXCEPT ![i].formatter = fid],
                formatters |-> fm @@ (fid :> fmt)]

\* simple_handlr_cfgr, a stream that has handlers: the first of them gets the format,
\* written into its Formatter object when it has one, in a new Formatter otherwise
UpdateFirstHandler(hs, fm, hid, fmt) ==
    LET i == IndexOfId(hs, hid)
        handlr == hs[i]
    IN IF handlr.formatter # NoFormatter
       THEN [handlers |-> hs, formatters |-> [fm EXCEPT ![handlr.formatter] = fmt]]
       ELSE LET fid == NewId(DOMAIN fm)
            IN [handlers |-> [hs EXCEPT ![i].formatter = fid],
                formatters |-> fm @@ (fid :> fmt)]

\* a loop body that takes the last handler of the stream instead of the first
ReconcileStream_last(level, item, stream_handlers_map, hs, fm) ==
    LET stream == item.stream
        fmt == Fmt(item.fmt, level)
    IN IF stream \in DOMAIN stream_handlers_map
       THEN UpdateFirstHandler(hs, fm,
                stream_handlers_map[stream][Len(stream_handlers_map[stream])], fmt)
       ELSE new_formatter(hs, fm, stream, fmt)

\* the body of the "for stream in stream_fmt_map" loop of simple_handlr_cfgr
ReconcileStream(level, item, stream_handlers_map, hs, fm) ==
    LET stream == item.stream
        fmt == Fmt(item.fmt, level)
    IN IF stream \in DOMAIN stream_handlers_map
       THEN IF stream_handlers_map[stream] # <<>>
            THEN UpdateFirstHandler(hs, fm, stream_handlers_map[stream][1], fmt)
            ELSE new_formatter(hs, fm, stream, fmt)
       ELSE new_formatter(hs, fm, stream, fmt)

\* the "for stream in stream_fmt_map" loop of simple_handlr_cfgr
RECURSIVE ReconcileStreams(_, _, _, _, _)
ReconcileStreams(level, stream_fmt_map, stream_handlers_map, hs, fm) ==
    IF stream_fmt_map = <<>> THEN [handlers |-> hs, formatters |-> fm]
    ELSE LET n == ReconcileStream(level, Head(stream_fmt_map), stream_handlers_map, hs, fm)
         IN ReconcileStreams(level, Tail(stream_fmt_map), stream_handlers_map,
                n.handlers, n.formatters)

\* simple_handlr_cfgr(level, logger, stream_fmt_map, propagate): the handlers and
\* formatters it leaves
Reconciled(level, stream_fmt_map, hs, fm) ==
    IF stream_fmt_map = <<>>
    THEN [handlers |-> ClearAndAddNull(hs), formatters |-> <<>>]
    ELSE ReconcileStreams(level, stream_fmt_map, form_stream_handlers_map(hs), hs, fm)

\* ---------------------------------------------------------------------------
\* Views used by the properties
\* ---------------------------------------------------------------------------
OnStream(hs, s) == SelectSeq(hs, LAMBDA h : h.cls = "StreamHandler" /\ h.stream = s)
FmtOf(h, fm) == IF h.formatter = NoFormatter THEN "no-formatter" ELSE fm[h.formatter]
Slot(hs, s) ==
    IF OnStream(hs, s) = <<>> THEN "absent"
    ELSE IF OnStream(hs, s)[1].formatter = NoFormatter THEN "present-no-formatter"
    ELSE "present-with-formatter"

\* ---------------------------------------------------------------------------
\* Operations on a logger
\* ---------------------------------------------------------------------------
InitH ==
    /\ handlers = <<>>
    /\ formatters = <<>>
    /\ propagate = TRUE
    /\ created = {}
    /\ preSlot = [s \in Streams |-> "absent"]
    /\ preLen = 0
    /\ lastCall = NoCall
    /\ twice = FALSE
    /\ growing = TRUE

\* The caller attaches a handler of its own: logger.addHandler(h) with h a
\* StreamHandler or another handler, without formatter, with a Formatter of its
\* own, or with the Formatter object of a handler that is already attached
\* (what logging.basicConfig(handlers=[...]) does).
CallerAddsHandler(cls, stream, fchoice) ==
    /\ Len(handlers) < MaxHandlers
    /\ (cls = "StreamHandler") <=> (stream \in Streams)
    /\ fchoice \in {NoFormatter, NewId(DOMAIN formatters)} \cup DOMAIN formatters
    /\ handlers' = addHandler(handlers, [NewHandler(handlers, cls, stream) EXCEPT !.formatter = fchoice])
    /\ formatters' = IF fchoice = NoFormatter \/ fchoice \in DOMAIN formatters
                     THEN formatters
                     ELSE formatters @@ (fchoice :> "SHORTER_LOG_FMT")
    /\ created' = {s \in Streams : stream = s}
    /\ preSlot' = [s \in Streams |-> Slot(handlers, s)]
    /\ preLen' = Len(handlers)
    /\ lastCall' = NoCall
    /\ twice' = FALSE
    /\ growing' = FALSE
    /\ UNCHANGED <<auxvars, propagate, env, pickvars, chainvars, clonevars>>

\* simple_handlr_cfgr(level, logger, stream_fmt_map, propagate)
simple_handlr_cfgr(level, stream_fmt_map, prop) ==
    LET r == Reconciled(level, stream_fmt_map, handlers, formatters)
        call == [op |-> "simple_handlr_cfgr", level |-> level, map |-> stream_fmt_map]
    IN /\ DistinctKeys(stream_fmt_map)
       /\ propagate' = prop
       /\ handlers' = r.handlers
       /\ formatters' = r.formatters
       /\ created' = {s \in Streams : Len(OnStream(r.handlers, s)) > Len(OnStream(handlers, s))}
       /\ preSlot' = [s \in Streams |-> Slot(handlers, s)]
       /\ preLen' = Len(handlers)
       /\ lastCall' = call
       /\ twice' = (/\ lastCall = call
                    /\ Len(stream_fmt_map) = 1
                    /\ preSlot[stream_fmt_map[1].stream] = "absent")
       /\ growing' = (/\ growing
                      /\ stream_fmt_map # <<>>
                      /\ lastCall # NoCall => MapKeys(lastCall.map) \subseteq MapKeys(stream_fmt_map))
       /\ UNCHANGED <<auxvars, env, pickvars, chainvars, clonevars>>

NextH ==
    \/ \E cls \in {"StreamHandler", "Handler"}, s \in Streams \cup {NoStream},
          f \in 0..(MaxHandlers + 1) : CallerAddsHandler(cls, s, f)
    \/ \E level \in CallLevels, m \in StreamFmtMaps, p \in PropagateArgs :
          simple_handlr_cfgr(level, m, p)

\* ---------------------------------------------------------------------------
\* Level pickup: get_first_non_none and EnvListLC.level_list
\* ---------------------------------------------------------------------------
\* longest level list handed to a pickup strategy
MaxLen == 3

EnvValues == {PyNone, PyStr("DEBUG"), PyStr("INFO")}
PickNames == {"A", "B", "C"}
PickEnvLists == {<<"A", "B", "C">>, <<"C", "A">>}
PickValues == {PyNone, PyInt(DEBUG), PyStr("INFO")}
PickDefaults == {PyNone, PyInt(WARNING)}
PickLists == UNION {[1..n -> PickValues] : n \in 0..MaxLen}
NoPick == [op |-> "none"]

\* os.getenv(e)
getenv(e) == IF e \in DOMAIN env THEN env[e] ELSE PyNone

\* a pickup that keeps the last entry that is not None
RECURSIVE get_first_non_none_last(_, _)
get_first_non_none_last(lst, default) ==
    IF lst = <<>> THEN default
    ELSE IF lst[Len(lst)] # PyNone THEN lst[Len(lst)]
    ELSE get_first_non_none_last(SubSeq(lst, 1, Len(lst) - 1), default)

\* get_first_non_none(lst, default): the loop returns at the first entry that is not None
RECURSIVE get_first_non_none(_, _)
get_first_non_none(lst, default) ==
    IF lst = <<>> THEN default
    ELSE IF Head(lst) # PyNone THEN Head(lst)
    ELSE get_first_non_none(Tail(lst), default)

\* EnvListLC.level_list: [os.getenv(e) for e in self.env_list]
level_list(env_list) == [i \in 1..Len(env_list) |-> getenv(env_list[i])]

InitPick ==
    /\ env \in [PickNames -> EnvValues]
    /\ pick \in {[op |-> "none", list |-> l, passed |-> l, default |-> d, result |-> PyNone] :
                    l \in PickLists, d \in PickDefaults}

\* get_first_non_none(pick.list, pick.default); the function assigns to no entry
\* of the list it is given
call_get_first_non_none ==
    /\ pick.op = "none"
    /\ pick' = [pick EXCEPT !.op = "get_first_non_none",
                            !.passed = pick.list,
                            !.result = get_first_non_none(pick.list, pick.default)]
    /\ UNCHANGED <<auxvars, env, vqCall, hvars, chainvars, clonevars>>

\* EnvListLC(env_list, ...).level_pickup_strategy(self.level_list), as configure does
resolve_env_list(env_list) ==
    /\ pick.op = "none"
    /\ pick' = [op |-> "resolve", env_list |-> env_list, list |-> level_list(env_list),
                result |-> get_first_non_none(level_list(env_list), PyNone)]
    /\ UNCHANGED <<auxvars, env, vqCall, hvars, chainvars, clonevars>>

NextPick ==
    \/ call_get_first_non_none
    \/ \E el \in PickEnvLists : resolve_env_list(el)

\* ---------------------------------------------------------------------------
\* Logger configurators: StdLoggerConfigurator and its level-setting decorators
\* ---------------------------------------------------------------------------
EnvNames == {"APP", VT_ALL_LOG_ENV_VAR}
EnvLists == {<<"APP">>, <<"APP", VT_ALL_LOG_ENV_VAR>>}
SupplierLevels == {PyInt(DEBUG), PyStr("INFO")}
LevelLists == {<<PyNone, PyInt(DEBUG)>>, <<PyNone>>}
SetLevelArgs == {PyStr("10"), PyStr("NO_SUCH_LEVEL")}
VerQuis == {PyNone, PyStr("vv"), PyStr("q"), PyStr("x")}
Verbosities == {PyNone, PyStr("vv"), PyStr("x")}
Quietnesses == {PyNone, PyStr("q")}
\* no_warn as StdLoggerConfigurator is constructed with
NoWarnArgs == BOOLEAN
\* warn_only of the VQSepExclusive / VQCommon a decorator works with: TRUE in the
\* one it makes for itself, FALSE (the default of their constructors) or TRUE in
\* one the program passes
WarnOnlyArgs == BOOLEAN

NoDec == [cls |-> "none"]
NoLast == [op |-> "none", calls |-> <<>>, raised |-> "none", warnings |-> <<>>]
Call(op, arg) == [op |-> op, arg |-> arg]
Logger(level, hs, fm) == [level |-> level, handlers |-> hs, formatters |-> fm]

STDERR_ALL_LVL_SAME_FMT == <<[stream |-> "stderr", fmt |-> SameFmt("SHORTER_LOG_FMT")]>>
STDERR_ALL_LVL_DIFF_FMT == <<[stream |-> "stderr", fmt |-> DiffFmt]>>
\* stream_fmt_mapper as the constructor leaves it: the two defaults and stream_list=[]
StdMappers == {STDERR_ALL_LVL_SAME_FMT, STDERR_ALL_LVL_DIFF_FMT, <<>>}

\* StdLoggerConfigurator.__init__
StdLoggerConfigurator(level, stream_fmt_mapper, no_warn) ==
    [cls |-> "StdLoggerConfigurator", level |-> level,
     stream_fmt_mapper |-> stream_fmt_mapper, no_warn |-> no_warn]

\* StdLoggerConfigurator.set_level
Std_set_level(s, new_level) == [s EXCEPT !.level = new_level]

\* the try block of StdLoggerConfigurator.configure: an int is taken as it is, a
\* digit string is converted, a name is looked up; None has no isdigit
\* (AttributeError, not caught), an unknown name is a KeyError (caught)
ResolveIntLevel(level) ==
    IF level.ty = "int"
    THEN [raised |-> "none", int_level |-> level.n, undefined |-> FALSE]
    ELSE IF level.ty = "NoneType"
    THEN [raised |-> "AttributeError", int_level |-> 0, undefined |-> FALSE]
    ELSE IF level.s \in DOMAIN DigitStrings
    THEN [raised |-> "none", int_level |-> DigitStrings[level.s], undefined |-> FALSE]
    ELSE IF level.s \in DOMAIN LevelNamesMapping
    THEN [raised |-> "none", int_level |-> LevelNamesMapping[level.s], undefined |-> FALSE]
    ELSE [raised |-> "none", int_level |-> WARNING, undefined |-> TRUE]

\* "for handler in logger.handlers: logger.removeHandler(handler)": the list
\* iterator moves on by position while the list shrinks under it
RECURSIVE RemoveHandlersWhileIterating(_, _)
RemoveHandlersWhileIterating(hs, i) ==
    IF i > Len(hs) THEN hs
    ELSE RemoveHandlersWhileIterating(SubSeq(hs, 1, i - 1) \o SubSeq(hs, i + 1, Len(hs)), i + 1)

\* the Formatter objects still referenced by a handler
LiveFormatters(hs, fm) ==
    [f \in {hs[i].formatter : i \in 1..Len(hs)} \ {NoFormatter} |-> fm[f]]

\* the "for stream in stream_fmt_map" loop of StdLoggerConfigurator.configure: a new
\* StreamHandler with a new Formatter(fmt(int_level)) is added for each stream
RECURSIVE AddStreamHandlers(_, _, _, _)
AddStreamHandlers(stream_fmt_map, int_level, hs, fm) ==
    IF stream_fmt_map = <<>> THEN [handlers |-> hs, formatters |-> fm]
    ELSE LET item == Head(stream_fmt_map)
             n == new_formatter(hs, fm, item.stream, Fmt(item.fmt, int_level))
         IN AddStreamHandlers(Tail(stream_fmt_map), int_level, n.handlers, n.formatters)

\* the text of a warning or of an exception: its fixed words, the value it
\* quotes and the choices it lists
Message(msg, key, emphasis, choices) ==
    [msg |-> msg, key |-> key, emphasis |-> emphasis, choices |-> choices]

\* list(levels_to_choose_from.values()): the names of the registered levels
LevelChoices == <<"TRACE", "DEBUG", "INFO", "WARNING", "ERROR", "CRITICAL">>

\* an except branch that warns of the undefined level and says no more
UndefinedLevelWarnings_first(s) ==
    IF s.no_warn THEN <<>>
    ELSE <<Message("Undefined log level", s.level.s, "", LevelChoices)>>

\* the except KeyError branch of StdLoggerConfigurator.configure: unless no_warn,
\* "Undefined log level '{level}'. Choose from {...}." and then "Setting log
\* level to default: 'WARNING'."
UndefinedLevelWarnings(s) ==
    IF s.no_warn THEN <<>>
    ELSE <<Message("Undefined log level", s.level.s, "", LevelChoices),
           Message("Setting log level to default", "WARNING", "", <<>>)>>

\* StdLoggerConfigurator.configure(logger)
Std_configure(s, lg) ==
    LET r == ResolveIntLevel(s.level)
        hf == IF s.stream_fmt_mapper = <<>>
              THEN LET kept == RemoveHandlersWhileIterating(lg.handlers, 1)
                       hs == addHandler(kept, NewHandler(kept, "NullHandler", NoStream))
                   IN [handlers |-> hs, formatters |-> LiveFormatters(hs, lg.formatters)]
              ELSE AddStreamHandlers(s.stream_fmt_mapper, r.int_level, lg.handlers, lg.formatters)
    IN IF r.raised # "none"
       THEN [raised |-> r.raised, warnings |-> <<>>, logger |-> lg]
       ELSE [raised |-> "none",
             warnings |-> IF r.undefined THEN UndefinedLevelWarnings(s) ELSE <<>>,
             logger |-> Logger(r.int_level, hf.handlers, hf.formatters)]

\* list(self.vq_level_map.keys()): the keys in the order of the dict
VQ_KEYS == <<"v", "vv", "vvv", "q", "qq">>

\* f"{key_error}: {form_errmsg_for_choices(emphasis, choices)}"
KeyErrorMessage(key, emphasis, choices) ==
    Message("Unexpected value", key, emphasis, choices)

\* what a call of the VQ component gives its caller: the value returned (the
\* level of get_effective_level, the verdict of validate), the warnings emitted,
\* the exception raised and the keys looked up in the map
VQResult(value, warnings, raised, lookups) ==
    [level |-> value, valid |-> value, warnings |-> warnings, raised |-> raised,
     lookups |-> lookups]

\* a level_or_default that raises whatever warn_only says
level_or_default_strict(ver_qui, emphasis, default_level, warn_only) ==
    IF Truthy(ver_qui)
    THEN IF ver_qui.s \in DOMAIN VQ_LEVEL_MAP
         THEN VQResult(PyInt(VQ_LEVEL_MAP[ver_qui.s]), <<>>, "none", <<ver_qui.s>>)
         ELSE VQResult(default_level, <<>>, "KeyError", <<ver_qui.s>>)
    ELSE VQResult(default_level, <<>>, "none", <<>>)

\* VQLevelOrDefault.level_or_default with WarningWithDefault.handle_key_error
level_or_default(ver_qui, emphasis, default_level, warn_only) ==
    IF Truthy(ver_qui)
    THEN IF ver_qui.s \in DOMAIN VQ_LEVEL_MAP
         THEN VQResult(PyInt(VQ_LEVEL_MAP[ver_qui.s]), <<>>, "none", <<ver_qui.s>>)
         ELSE IF warn_only
         THEN VQResult(default_level, <<KeyErrorMessage(ver_qui.s, emphasis, VQ_KEYS)>>,
                       "none", <<ver_qui.s>>)
         ELSE VQResult(default_level, <<>>, "KeyError", <<ver_qui.s>>)
    ELSE VQResult(default_level, <<>>, "none", <<>>)

\* a validate that lets verbosity and quietness through together
VQSepExclusive_validate_both(verbosity, quietness, warn_only) ==
    VQResult(TRUE, <<>>, "none", <<>>)

\* VQSepExclusive.validate
VQSepExclusive_validate(verbosity, quietness, warn_only) ==
    IF Truthy(verbosity) /\ Truthy(quietness)
    THEN IF warn_only
         THEN VQResult(FALSE, <<Message("cannot be given together", "", "", <<>>)>>,
                       "none", <<>>)
         ELSE VQResult(FALSE, <<>>, "ValueError", <<>>)
    ELSE VQResult(TRUE, <<>>, "none", <<>>)

\* a get_effective_level that resolves quietness only
VQSepExclusive_get_effective_level_q(verbosity, quietness, default_level, warn_only) ==
    LET v == VQSepExclusive_validate(verbosity, quietness, warn_only)
    IN IF v.raised # "none"
       THEN VQResult(default_level, <<>>, v.raised, <<>>)
       ELSE IF ~v.valid
       THEN VQResult(default_level, v.warnings, "none", <<>>)
       ELSE level_or_default(quietness, "quietness", default_level, warn_only)

\* VQSepExclusive.get_effective_level
VQSepExclusive_get_effective_level(verbosity, quietness, default_level, warn_only) ==
    LET v == VQSepExclusive_validate(verbosity, quietness, warn_only)
    IN IF v.raised # "none"
       THEN VQResult(default_level, <<>>, v.raised, <<>>)
       ELSE IF ~v.valid
       THEN VQResult(default_level, v.warnings, "none", <<>>)
       ELSE IF Truthy(verbosity)
       THEN level_or_default(verbosity, "verbosity", default_level, warn_only)
       ELSE IF Truthy(quietness)
       THEN level_or_default(quietness, "quietness", default_level, warn_only)
       ELSE VQResult(default_level, <<>>, "none", <<>>)

\* VQCommon.validate: ver_qui in self.vq_level_map
VQCommon_validate(ver_qui, warn_only) ==
    VQResult(ver_qui.ty = "str" /\ ver_qui.s \in DOMAIN VQ_LEVEL_MAP, <<>>, "none",
             IF ver_qui.ty = "str" THEN <<ver_qui.s>> ELSE <<>>)

\* a get_effective_level that takes any token for a key of the map
VQCommon_get_effective_level_any(ver_qui, default_level, warn_only) ==
    IF Truthy(ver_qui) /\ ver_qui.s \in DOMAIN VQ_LEVEL_MAP
    THEN level_or_default(ver_qui, "verbosity or quietness", default_level, warn_only)
    ELSE VQResult(default_level, <<>>, "none", <<>>)

\* VQCommon.get_effective_level
VQCommon_get_effective_level(ver_qui, default_level, warn_only) ==
    IF Truthy(ver_qui)
    THEN level_or_default(ver_qui, "verbosity or quietness", default_level, warn_only)
    ELSE VQResult(default_level, <<>>, "none", <<>>)

\* the constructors of the decorators
SupplierLoggerConfigurator(level) ==
    [cls |-> "SupplierLoggerConfigurator", level_supplier |-> level]
ListLoggerConfigurator(lst) ==
    [cls |-> "ListLoggerConfigurator", level_list |-> lst]
EnvListLC(env_list) ==
    [cls |-> "EnvListLC", env_list |-> env_list]
VQCommLoggerConfigurator(ver_qui, warn_only) ==
    [cls |-> "VQCommLoggerConfigurator", ver_qui |-> ver_qui, warn_only |-> warn_only,
     default_log_level |-> PyInt(WARNING)]
VQSepLoggerConfigurator(verbosity, quietness, warn_only) ==
    [cls |-> "VQSepLoggerConfigurator", verbosity |-> verbosity, quietness |-> quietness,
     warn_only |-> warn_only, default_log_level |-> PyInt(WARNING)]

\* the level list of a ListLoggerConfigurator: the list it was given, or, in an
\* EnvListLC, the level_list property
Dec_level_list(d) == IF d.cls = "EnvListLC" THEN level_list(d.env_list) ELSE d.level_list

\* a pickup that returns what the environment held when the EnvListLC was constructed
final_level_at_construction(d) ==
    IF d.cls = "EnvListLC" THEN ctorLevel ELSE get_first_non_none(d.level_list, PyNone)

\* ListLoggerConfigurator.configure: self.level_pickup_strategy(self.level_list)
final_level(d) == get_first_non_none(Dec_level_list(d), PyNone)

\* "self.configurator.set_level(final_level); return self.configurator.configure(logger)"
SetLevelThenConfigure(level, warns, s, lg) ==
    LET s2 == Std_set_level(s, level)
        r == Std_configure(s2, lg)
    IN [std |-> s2, calls |-> <<Call("set_level", level), Call("configure", PyNone)>>,
        raised |-> r.raised, warnings |-> warns \o r.warnings, logger |-> r.logger]

\* a configure that raised before it called anything
Raised(exc, s, lg) ==
    [std |-> s, calls |-> <<>>, raised |-> exc, warnings |-> <<>>, logger |-> lg]

\* VQCommLoggerConfigurator.configure
VQComm_configure(d, s, lg) ==
    LET e == VQCommon_get_effective_level(d.ver_qui, d.default_log_level, d.warn_only)
    IN IF e.raised # "none" THEN Raised(e.raised, s, lg)
       ELSE SetLevelThenConfigure(e.level, e.warnings, s, lg)

\* VQSepLoggerConfigurator.configure: the underlying configurator configures the
\* logger at its own level, then the logger's level is set
VQSep_configure(d, s, lg) ==
    LET e == VQSepExclusive_get_effective_level(d.verbosity, d.quietness,
                                                d.default_log_level, d.warn_only)
        r == Std_configure(s, lg)
    IN IF e.raised # "none" THEN Raised(e.raised, s, lg)
       ELSE [std |-> s, calls |-> <<Call("configure", PyNone)>>, raised |-> r.raised,
             warnings |-> e.warnings \o r.warnings,
             logger |-> IF r.raised # "none" THEN lg
                        ELSE [r.logger EXCEPT !.level = e.level.n]]

\* configure(logger) of the outermost configurator
Configure(d, s, lg) ==
    CASE d.cls = "none" ->
            LET r == Std_configure(s, lg)
            IN [std |-> s, calls |-> <<>>, raised |-> r.raised,
                warnings |-> r.warnings, logger |-> r.logger]
      [] d.cls = "SupplierLoggerConfigurator" ->
            SetLevelThenConfigure(d.level_supplier, <<>>, s, lg)
      [] d.cls \in {"ListLoggerConfigurator", "EnvListLC"} ->
            SetLevelThenConfigure(final_level(d), <<>>, s, lg)
      [] d.cls = "VQCommLoggerConfigurator" -> VQComm_configure(d, s, lg)
      [] d.cls = "VQSepLoggerConfigurator" -> VQSep_configure(d, s, lg)

LastTwo(q) == IF Len(q) <= 2 THEN q ELSE SubSeq(q, Len(q) - 1, Len(q))

\* the chains a program builds: std alone, or std under one decorator
Decorators ==
    {NoDec}
    \cup {SupplierLoggerConfigurator(l) : l \in SupplierLevels}
    \cup {ListLoggerConfigurator(l) : l \in LevelLists}
    \cup {EnvListLC(el) : el \in EnvLists}
    \cup {VQCommLoggerConfigurator(vq, w) : vq \in VerQuis, w \in WarnOnlyArgs}
    \cup {d \in {VQSepLoggerConfigurator(v, q, w) :
                      v \in Verbosities, q \in Quietnesses, w \in WarnOnlyArgs} :
                \* __init__ validates, and raises instead of making the object
                VQSepExclusive_validate(d.verbosity, d.quietness, d.warn_only).raised = "none"}

\* what the constructor of d reported: VQSepLoggerConfigurator.__init__ validates
\* its tokens, the others report nothing
Constructed(d) ==
    [NoLast EXCEPT !.op = "construct",
                   !.warnings = IF d.cls = "VQSepLoggerConfigurator"
                                THEN VQSepExclusive_validate(d.verbosity, d.quietness,
                                                             d.warn_only).warnings
                                ELSE <<>>]

\* the chain right after it was constructed, in some environment, with a logger
\* that has no handler
InitChain ==
    /\ handlers = <<>>
    /\ formatters = <<>>
    /\ loggerLevel = 0
    /\ env \in [EnvNames -> EnvValues]
    /\ std \in {StdLoggerConfigurator(PyInt(WARNING), m, nw) : m \in StdMappers, nw \in NoWarnArgs}
    /\ dec \in Decorators
    /\ ctorLevel = IF dec.cls = "EnvListLC"
                   THEN get_first_non_none(level_list(dec.env_list), PyNone)
                   ELSE PyNone
    /\ pushed = <<>>
    /\ last = Constructed(dec)

\* os.environ[e] = v, or del os.environ[e]
SetEnv(e, v) ==
    /\ env[e] # v
    /\ env' = [env EXCEPT ![e] = v]
    /\ last' = NoLast
    /\ UNCHANGED <<auxvars, hvars, pickvars, loggerLevel, std, dec, ctorLevel, pushed, clonevars>>

\* the caller takes another logger: logging.getLogger(another name)
NewLogger ==
    /\ handlers # <<>>
    /\ handlers' = <<>>
    /\ formatters' = <<>>
    /\ loggerLevel' = 0
    /\ last' = NoLast
    /\ UNCHANGED <<auxvars, ghostvars, env, pickvars, std, dec, ctorLevel, pushed, clonevars>>

\* std.set_level(new_level), called by the program itself
set_level(new_level) ==
    /\ std.level # new_level
    /\ std' = Std_set_level(std, new_level)
    /\ last' = NoLast
    /\ UNCHANGED <<auxvars, hvars, env, pickvars, loggerLevel, dec, ctorLevel, pushed, clonevars>>

\* VQCommLoggerConfigurator.set_level
VQComm_set_level(new_ver_qui) ==
    /\ dec.cls = "VQCommLoggerConfigurator"
    /\ dec.ver_qui # new_ver_qui
    /\ dec' = [dec EXCEPT !.ver_qui = new_ver_qui]
    /\ last' = NoLast
    /\ UNCHANGED <<auxvars, hvars, env, pickvars, loggerLevel, std, ctorLevel, pushed, clonevars>>

\* configure(logger) on the outermost configurator
configure ==
    LET r == Configure(dec, std, Logger(loggerLevel, handlers, formatters))
        sets == SelectSeq(r.calls, LAMBDA c : c.op = "set_level")
    IN /\ Len(r.logger.handlers) <= MaxHandlers
       /\ std' = r.std
       /\ handlers' = r.logger.handlers
       /\ formatters' = r.logger.formatters
       /\ loggerLevel' = r.logger.level
       /\ pushed' = LastTwo(pushed \o [i \in 1..Len(sets) |-> sets[i].arg])
       /\ last' = [op |-> "configure", calls |-> r.calls, raised |-> r.raised,
                   warnings |-> r.warnings]
       /\ UNCHANGED <<auxvars, ghostvars, env, pickvars, dec, ctorLevel, clonevars>>

NextChain ==
    \/ \E e \in EnvNames, v \in EnvValues : SetEnv(e, v)
    \/ NewLogger
    \/ \E l \in SetLevelArgs : set_level(l)
    \/ \E vq \in VerQuis : VQComm_set_level(vq)
    \/ configure

\* ---------------------------------------------------------------------------
\* Cloning: the level-setting decorators as objects, the list objects and the
\* underlying configurators they hold
\* ---------------------------------------------------------------------------
\* largest number of configurator objects alive at once
MaxCfgs == 2
\* longest env_list a configurator is built with
MaxEnvLen == 4
\* largest number of configurator objects alive when the program constructs one
\* directly: the others come from clone_with and clone_with_envs
MaxMade == 1

CtorEnvLists == {<<>>, <<"APP">>}
ExtraEnvs == {<<>>, <<"X">>, <<"X", "Y">>}
NoClone == [op |-> "none"]
\* the StdLoggerConfigurator objects the program decorates
StdIds == {1, 2}
\* no list object: None where a list is expected, or a field the class does not have
NoList == 0
\* level_list as ListLoggerConfigurator is constructed with
CtorLevelLists == LevelLists \cup {<<>>}
\* all_log_env_var as VTEnvListLC is constructed with: the default and a name of the program
AllLogEnvVars == {VT_ALL_LOG_ENV_VAR, "APP_ALL"}
\* level_pickup_strategy: DEFAULT_LEVEL_PICKUP_FIRST_NON_NONE, or a function of the
\* program, here "lambda lst: lst[-1] if lst else None"
Strategies == {"get_first_non_none", "last_entry"}
ListClasses == {"ListLoggerConfigurator", "EnvListLC", "VTEnvListLC"}
EnvClasses == {"EnvListLC", "VTEnvListLC"}

\* self.level_pickup_strategy(lst)
Pickup(level_pickup_strategy, lst) ==
    IF level_pickup_strategy = "get_first_non_none" THEN get_first_non_none(lst, PyNone)
    ELSE IF lst = <<>> THEN PyNone ELSE lst[Len(lst)]

\* a list display or list(...): a new list object with the given items
NewList(ls, items) == [lists |-> ls @@ (NewId(DOMAIN ls) :> items), id |-> NewId(DOMAIN ls)]

\* a clone that keeps the list object of the original
list_alias(ls, l) == [lists |-> ls, id |-> l]

\* self.level_list.copy() / self.env_list.copy(): a new list object with the same items
list_copy(ls, l) == NewList(ls, ls[l])

\* a clone that takes the other underlying configurator
other_configurator(cf, self) == CHOOSE u \in StdIds : u # cf[self].configurator

\* a clone that names itself as its underlying configurator
new_configurator(cf, self) == NewId(DOMAIN cf)

\* self.configurator, the default of kwargs.pop('configurator', ...)
self_configurator(cf, self) == cf[self].configurator

\* the attributes of a configurator object; catch_all is not an attribute: it
\* records the all_log_env_var a VTEnvListLC stands for
Cfg(cls, level_supplier, lvl_list, env_list, configurator, level_pickup_strategy, catch_all) ==
    [cls |-> cls, level_supplier |-> level_supplier, level_list |-> lvl_list,
     env_list |-> env_list, configurator |-> configurator,
     level_pickup_strategy |-> level_pickup_strategy, catch_all |-> catch_all]

\* the heap after a constructor returned the new object
Made(ls, cf, obj) ==
    [lists |-> ls, cfgs |-> cf @@ (NewId(DOMAIN cf) :> obj), new |-> NewId(DOMAIN cf),
     raised |-> "none"]

\* SupplierLoggerConfigurator.__init__
SupplierLoggerConfigurator_init(ls, cf, level_supplier, configurator) ==
    Made(ls, cf, Cfg("SupplierLoggerConfigurator", level_supplier, NoList, NoList,
                     configurator, "none", ""))

\* ListLoggerConfigurator.__init__: only None is refused, the object keeps the
\* list object it is given
ListLoggerConfigurator_init(ls, cf, lvl_list, configurator, level_pickup_strategy) ==
    IF lvl_list = NoList
    THEN [lists |-> ls, cfgs |-> cf, new |-> 0, raised |-> "ValueError"]
    ELSE Made(ls, cf, Cfg("ListLoggerConfigurator", PyNone, lvl_list, NoList,
                          configurator, level_pickup_strategy, ""))

\* EnvListLC.__init__: the object keeps the list object it is given; the [] it
\* hands to ListLoggerConfigurator.__init__ is never read, level_list being overridden
EnvListLC_init(ls, cf, cls, env_list, configurator, level_pickup_strategy, catch_all) ==
    Made(ls, cf, Cfg(cls, PyNone, NoList, env_list, configurator, level_pickup_strategy,
                     catch_all))

\* VTEnvListLC.__init__: env_list.append(all_log_env_var) on the list object it is
\* given, then EnvListLC.__init__
VTEnvListLC_init(ls, cf, env_list, configurator, level_pickup_strategy, all_log_env_var) ==
    EnvListLC_init([ls EXCEPT ![env_list] = Append(@, all_log_env_var)], cf,
                   "VTEnvListLC", env_list, configurator, level_pickup_strategy,
                   all_log_env_var)

\* the keyword clone_with reads the list and the pickup from, by class
ListKey(cls) == IF cls = "ListLoggerConfigurator" THEN "level_list" ELSE "env_list"
PickupKey(cls) ==
    IF cls = "SupplierLoggerConfigurator" THEN "level_supplier" ELSE "level_pickup_strategy"

\* clone_with(**kwargs) of the four classes: each field is the keyword's value if
\* the keyword is given, else the original's (the list: a copy of the original's),
\* and the constructor of the object's own class is called on them; VTEnvListLC
\* calls its constructor without all_log_env_var
clone_with(ls, cf, self, kwargs) ==
    LET o == cf[self]
        configurator == IF "configurator" \in DOMAIN kwargs THEN kwargs.configurator
                        ELSE self_configurator(cf, self)
    IN IF o.cls = "SupplierLoggerConfigurator"
       THEN SupplierLoggerConfigurator_init(ls, cf,
                IF "level_supplier" \in DOMAIN kwargs THEN kwargs.level_supplier
                ELSE o.level_supplier,
                configurator)
       ELSE LET level_pickup_strategy ==
                    IF "level_pickup_strategy" \in DOMAIN kwargs
                    THEN kwargs.level_pickup_strategy ELSE o.level_pickup_strategy
            IN IF o.cls = "ListLoggerConfigurator"
               THEN LET l == IF "level_list" \in DOMAIN kwargs
                             THEN [lists |-> ls, id |-> kwargs.level_list]
                             ELSE list_copy(ls, o.level_list)
                    IN ListLoggerConfigurator_init(l.lists, cf, l.id, configurator,
                                                   level_pickup_strategy)
               ELSE LET l == IF "env_list" \in DOMAIN kwargs
                             THEN [lists |-> ls, id |-> kwargs.env_list]
                             ELSE list_copy(ls, o.env_list)
                        r == IF o.cls = "VTEnvListLC"
                             THEN VTEnvListLC_init(l.lists, cf, l.id, configurator,
                                                   level_pickup_strategy, VT_ALL_LOG_ENV_VAR)
                             ELSE EnvListLC_init(l.lists, cf, "EnvListLC", l.id, configurator,
                                                 level_pickup_strategy, "")
                    \* the clone stands for the catch-all its original stands for
                    IN [r EXCEPT !.cfgs[r.new].catch_all = o.catch_all]

\* EnvListLC.clone_with_envs(*envs, low_precedence)
Clone_with_envs(ls, cf, self, envs, low_precedence) ==
    LET copy == NewList(ls, ls[cf[self].env_list])
        ext == IF low_precedence
               THEN [lists |-> [copy.lists EXCEPT ![copy.id] = @ \o envs], id |-> copy.id]
               ELSE NewList(copy.lists, envs \o copy.lists[copy.id])
    IN clone_with(ext.lists, cf, self, [env_list |-> ext.id])

\* the list object of a configurator, and its items
ListOf(o) == IF o.env_list # NoList THEN o.env_list ELSE o.level_list
ItemsOf(ls, o) == IF ListOf(o) = NoList THEN <<>> ELSE ls[ListOf(o)]

\* the list objects still referenced by a configurator
LiveLists(ls, cf) == [l \in {ListOf(cf[c]) : c \in DOMAIN cf} \ {NoList} |-> ls[l]]

\* what configure hands to set_level: the supplier's value, or the pickup over
\* the level list (for the env classes the values of the names, read now)
Cfg_final_level(ls, o) ==
    IF o.cls = "SupplierLoggerConfigurator" THEN o.level_supplier
    ELSE IF o.cls = "ListLoggerConfigurator"
    THEN Pickup(o.level_pickup_strategy, ls[o.level_list])
    ELSE Pickup(o.level_pickup_strategy, level_list(ls[o.env_list]))

InitClone ==
    /\ lists = <<>>
    /\ cfgs = <<>>
    /\ cloned = NoClone
    /\ stds = [u \in StdIds |-> StdLoggerConfigurator(PyInt(WARNING), <<>>, FALSE)]

\* SupplierLoggerConfigurator(lambda: level, stds[u])
MakeSupplierLC(level, u) ==
    LET r == SupplierLoggerConfigurator_init(lists, cfgs, level, u)
    IN /\ Cardinality(DOMAIN cfgs) < MaxMade
       /\ lists' = LiveLists(r.lists, r.cfgs)
       /\ cfgs' = r.cfgs
       /\ cloned' = NoClone
       /\ UNCHANGED <<auxvars, hvars, env, pickvars, chainvars, stds>>

\* ListLoggerConfigurator(list(levels), stds[u]), or ListLoggerConfigurator(None, stds[u])
MakeListLC(levels, is_none, u) ==
    LET l == IF is_none THEN [lists |-> lists, id |-> NoList] ELSE NewList(lists, levels)
        r == ListLoggerConfigurator_init(l.lists, cfgs, l.id, u, "get_first_non_none")
    IN /\ Cardinality(DOMAIN cfgs) < MaxMade
       /\ lists' = LiveLists(r.lists, r.cfgs)
       /\ cfgs' = r.cfgs
       /\ cloned' = [op |-> "ListLoggerConfigurator", raised |-> r.raised, new |-> r.new,
                     is_none |-> is_none, levels |-> levels]
       /\ UNCHANGED <<auxvars, hvars, env, pickvars, chainvars, stds>>

\* EnvListLC(list(names), stds[u])
MakeEnvListLC(names, u) ==
    LET l == NewList(lists, names)
        r == EnvListLC_init(l.lists, cfgs, "EnvListLC", l.id, u, "get_first_non_none", "")
    IN /\ Cardinality(DOMAIN cfgs) < MaxMade
       /\ lists' = LiveLists(r.lists, r.cfgs)
       /\ cfgs' = r.cfgs
       /\ cloned' = NoClone
       /\ UNCHANGED <<auxvars, hvars, env, pickvars, chainvars, stds>>

\* VTEnvListLC(list(names), stds[u], all_log_env_var=all_log_env_var)
MakeVTEnvListLC(names, u, all_log_env_var) ==
    LET l == NewList(lists, names)
        r == VTEnvListLC_init(l.lists, cfgs, l.id, u, "get_first_non_none", all_log_env_var)
    IN /\ Cardinality(DOMAIN cfgs) < MaxMade
       /\ lists' = LiveLists(r.lists, r.cfgs)
       /\ cfgs' = r.cfgs
       /\ cloned' = [op |-> "VTEnvListLC", new |-> r.new, names |-> names]
       /\ UNCHANGED <<auxvars, hvars, env, pickvars, chainvars, stds>>

\* the keyword arguments of one clone_with call: keys says which of the list, the
\* configurator and the pickup are given; the list given is a new one or the
\* original's own list object
KwArgs(cls, keys, lst, configurator, pickup) ==
    (IF "list" \in keys /\ cls \in ListClasses THEN ListKey(cls) :> lst ELSE <<>>)
    @@ (IF "configurator" \in keys THEN "configurator" :> configurator ELSE <<>>)
    @@ (IF "pickup" \in keys THEN PickupKey(cls) :> pickup ELSE <<>>)

\* the value a pickup keyword is given, by class: a supplier of another level, or
\* one of the strategies
PickupArg(cls, alt) ==
    IF cls = "SupplierLoggerConfigurator"
    THEN (IF alt THEN PyStr("INFO") ELSE PyInt(DEBUG))
    ELSE (IF alt THEN "last_entry" ELSE "get_first_non_none")
\* the items of a list the program passes as a list keyword
FreshItems(cls) == IF cls = "ListLoggerConfigurator" THEN <<PyStr("INFO")>> ELSE <<"X">>

\* self.clone_with(**kwargs)
call_clone_with(self, keys, own, u, alt) ==
    LET o == cfgs[self]
        given == "list" \in keys /\ o.cls \in ListClasses
        l == IF given /\ ~own THEN NewList(lists, FreshItems(o.cls))
             ELSE [lists |-> lists, id |-> ListOf(o)]
        kwargs == KwArgs(o.cls, keys, l.id, u, PickupArg(o.cls, alt))
        r == clone_with(l.lists, cfgs, self, kwargs)
    IN /\ self \in DOMAIN cfgs
       /\ Cardinality(DOMAIN cfgs) < MaxCfgs
       /\ Len(ItemsOf(r.lists, r.cfgs[r.new])) <= MaxEnvLen
       /\ lists' = LiveLists(r.lists, r.cfgs)
       /\ cfgs' = r.cfgs
       /\ cloned' = [op |-> "clone_with", self |-> self, new |-> r.new, kwargs |-> kwargs,
                     list_given |-> given,
                     passed |-> IF given THEN l.lists[l.id] ELSE <<>>,
                     before |-> [cfg |-> o, items |-> ItemsOf(lists, o)]]
       /\ UNCHANGED <<auxvars, hvars, env, pickvars, chainvars, stds>>

\* self.clone_with_envs(*envs, low_precedence=low_precedence)
clone_with_envs(self, envs, low_precedence) ==
    LET r == Clone_with_envs(lists, cfgs, self, envs, low_precedence)
    IN /\ self \in DOMAIN cfgs
       /\ cfgs[self].cls \in EnvClasses
       /\ Cardinality(DOMAIN cfgs) < MaxCfgs
       /\ Len(r.lists[r.cfgs[r.new].env_list]) <= MaxEnvLen
       /\ lists' = LiveLists(r.lists, r.cfgs)
       /\ cfgs' = r.cfgs
       /\ cloned' = [op |-> "clone_with_envs", self |-> self, new |-> r.new, envs |-> envs,
                     low_precedence |-> low_precedence,
                     before |-> lists[cfgs[self].env_list]]
       /\ UNCHANGED <<auxvars, hvars, env, pickvars, chainvars, stds>>

\* what the last clone_with is remembered as after the program changed the
\* clone's list: the clone and its original, if the clone's list was the one changed
AfterListChange(c) ==
    IF cloned.op \in {"clone_with", "list_changed"} /\ cloned.new = c
    THEN [op |-> "list_changed", self |-> cloned.self, new |-> c,
          list_given |-> cloned.list_given, before |-> cloned.before]
    ELSE NoClone

\* c.env_list.append(name) / c.level_list.append(level) by the program; level_list
\* of the env classes is a new list at every read, so nothing is kept of it
list_append(c) ==
    /\ c \in DOMAIN cfgs
    /\ ListOf(cfgs[c]) # NoList
    /\ Len(lists[ListOf(cfgs[c])]) < MaxEnvLen
    /\ lists' = [lists EXCEPT ![ListOf(cfgs[c])] =
                    Append(@, IF cfgs[c].cls \in EnvClasses THEN "Z" ELSE PyStr("DEBUG"))]
    /\ cloned' = AfterListChange(c)
    /\ UNCHANGED <<auxvars, hvars, env, pickvars, chainvars, cfgs, stds>>

\* c.env_list.pop() / c.level_list.pop() by the program
list_pop(c) ==
    /\ c \in DOMAIN cfgs
    /\ ListOf(cfgs[c]) # NoList
    /\ lists[ListOf(cfgs[c])] # <<>>
    /\ lists' = [lists EXCEPT ![ListOf(cfgs[c])] = SubSeq(@, 1, Len(@) - 1)]
    /\ cloned' = AfterListChange(c)
    /\ UNCHANGED <<auxvars, hvars, env, pickvars, chainvars, cfgs, stds>>

\* c.configure(logger) of the four classes: set_level(final_level) on the
\* underlying configurator, then its configure
configure_cfg(c) ==
    LET o == cfgs[c]
        final == Cfg_final_level(lists, o)
        r == SetLevelThenConfigure(final, <<>>, stds[o.configurator],
                                   Logger(loggerLevel, handlers, formatters))
    IN /\ c \in DOMAIN cfgs
       /\ Len(r.logger.handlers) <= MaxHandlers
       /\ stds' = [stds EXCEPT ![o.configurator] = r.std]
       /\ handlers' = r.logger.handlers
       /\ formatters' = r.logger.formatters
       /\ loggerLevel' = r.logger.level
       /\ cloned' = IF cloned.op = "clone_with" /\ cloned.new = c
                    THEN [op |-> "configure", self |-> cloned.self, new |-> c,
                          configurator_given |-> "configurator" \in DOMAIN cloned.kwargs,
                          final_level |-> final]
                    ELSE NoClone
       /\ UNCHANGED <<auxvars, ghostvars, env, pickvars, std, dec, ctorLevel, pushed, last, lists, cfgs>>

\* the program drops its reference to a configurator
Discard(c) ==
    /\ c \in DOMAIN cfgs
    /\ cfgs' = [d \in DOMAIN cfgs \ {c} |-> cfgs[d]]
    /\ lists' = LiveLists(lists, cfgs')
    /\ cloned' = NoClone
    /\ UNCHANGED <<auxvars, hvars, env, pickvars, chainvars, stds>>

NextClone ==
    \/ \E level \in SupplierLevels, u \in StdIds : MakeSupplierLC(level, u)
    \/ \E levels \in CtorLevelLists, is_none \in BOOLEAN, u \in StdIds :
          MakeListLC(levels, is_none, u)
    \/ \E names \in CtorEnvLists, u \in StdIds : MakeEnvListLC(names, u)
    \/ \E names \in CtorEnvLists, u \in StdIds, a \in AllLogEnvVars :
          MakeVTEnvListLC(names, u, a)
    \/ \E c \in 1..MaxCfgs, keys \in SUBSET {"list", "configurator", "pickup"},
          own \in BOOLEAN, u \in StdIds, alt \in BOOLEAN :
          call_clone_with(c, keys, own, u, alt)
    \/ \E c \in 1..MaxCfgs, envs \in ExtraEnvs, lp \in BOOLEAN : clone_with_envs(c, envs, lp)
    \/ \E c \in 1..MaxCfgs : Discard(c)

\* the configurators being made and cloned, and their lists changed by the program
NextIsolate ==
    \/ \E level \in SupplierLevels, u \in StdIds : MakeSupplierLC(level, u)
    \/ \E levels \in CtorLevelLists, is_none \in BOOLEAN, u \in StdIds :
          MakeListLC(levels, is_none, u)
    \/ \E names \in CtorEnvLists, u \in StdIds : MakeEnvListLC(names, u)
    \/ \E names \in CtorEnvLists, u \in StdIds, a \in AllLogEnvVars :
          MakeVTEnvListLC(names, u, a)
    \/ \E c \in 1..MaxCfgs, keys \in SUBSET {"list", "configurator", "pickup"},
          own \in BOOLEAN, u \in StdIds, alt \in BOOLEAN :
          call_clone_with(c, keys, own, u, alt)
    \/ \E c \in 1..MaxCfgs : list_append(c)
    \/ \E c \in 1..MaxCfgs : list_pop(c)

\* the configurators being made, cloned and used to configure the logger
NextShare ==
    \/ \E level \in SupplierLevels, u \in StdIds : MakeSupplierLC(level, u)
    \/ \E levels \in CtorLevelLists, is_none \in BOOLEAN, u \in StdIds :
          MakeListLC(levels, is_none, u)
    \/ \E names \in CtorEnvLists, u \in StdIds : MakeEnvListLC(names, u)
    \/ \E names \in CtorEnvLists, u \in StdIds, a \in AllLogEnvVars :
          MakeVTEnvListLC(names, u, a)
    \/ \E c \in 1..MaxCfgs, keys \in SUBSET {"list", "configurator", "pickup"},
          own \in BOOLEAN, u \in StdIds, alt \in BOOLEAN :
          call_clone_with(c, keys, own, u, alt)
    \/ \E c \in 1..MaxCfgs : configure_cfg(c)

\* ---------------------------------------------------------------------------
\* The VQ component on its own: one call of VQSepExclusive or VQCommon
\* ---------------------------------------------------------------------------
\* a token is None, empty, a key of the map or another string
VQVerbosities == Verbosities \cup {PyStr("")}
VQQuietnesses == Quietnesses \cup {PyStr(""), PyStr("y")}
VQVerQuis == VerQuis \cup {PyStr("")}
\* default_level: a level that is no value of the map, and one that is
VQDefaults == {PyInt(WARNING), PyInt(INFO)}
NoVQResult == VQResult(PyNone, <<>>, "none", <<>>)
NoVQ == [op |-> "none", verbosity |-> PyNone, quietness |-> PyNone, ver_qui |-> PyNone,
         default_level |-> PyInt(WARNING), warn_only |-> FALSE, result |-> NoVQResult]

\* the arguments of the call, and warn_only of the object it is made on
InitVQ ==
    vqCall \in [op : {"none"}, verbosity : VQVerbosities, quietness : VQQuietnesses,
            ver_qui : VQVerQuis, default_level : VQDefaults, warn_only : BOOLEAN,
            result : {NoVQResult}]

\* VQSepExclusive(VQ_LEVEL_MAP, warn_only).validate(verbosity, quietness)
call_VQSepExclusive_validate ==
    /\ vqCall.op = "none"
    /\ vqCall' = [vqCall EXCEPT !.op = "VQSepExclusive.validate",
                        !.result = VQSepExclusive_validate(vqCall.verbosity, vqCall.quietness,
                                                           vqCall.warn_only)]
    /\ UNCHANGED <<auxvars, env, pick, hvars, chainvars, clonevars>>

\* VQSepExclusive(VQ_LEVEL_MAP, warn_only).get_effective_level(verbosity, quietness, default_level)
call_VQSepExclusive_get_effective_level ==
    /\ vqCall.op = "none"
    /\ vqCall' = [vqCall EXCEPT !.op = "VQSepExclusive.get_effective_level",
                        !.result = VQSepExclusive_get_effective_level(
                                       vqCall.verbosity, vqCall.quietness, vqCall.default_level,
                                       vqCall.warn_only)]
    /\ UNCHANGED <<auxvars, env, pick, hvars, chainvars, clonevars>>

\* VQCommon(VQ_LEVEL_MAP, warn_only).validate(ver_qui)
call_VQCommon_validate ==
    /\ vqCall.op = "none"
    /\ vqCall' = [vqCall EXCEPT !.op = "VQCommon.validate",
                        !.result = VQCommon_validate(vqCall.ver_qui, vqCall.warn_only)]
    /\ UNCHANGED <<auxvars, env, pick, hvars, chainvars, clonevars>>

\* VQCommon(VQ_LEVEL_MAP, warn_only).get_effective_level(ver_qui, default_level)
call_VQCommon_get_effective_level ==
    /\ vqCall.op = "none"
    /\ vqCall' = [vqCall EXCEPT !.op = "VQCommon.get_effective_level",
                        !.result = VQCommon_get_effective_level(vqCall.ver_qui, vqCall.default_level,
                                                                vqCall.warn_only)]
    /\ UNCHANGED <<auxvars, env, pick, hvars, chainvars, clonevars>>

NextVQ ==
    \/ call_VQSepExclusive_validate
    \/ call_VQSepExclusive_get_effective_level
    \/ call_VQCommon_validate
    \/ call_VQCommon_get_effective_level

\* ---------------------------------------------------------------------------
\* StdLoggerConfigurator on its own: built from a stream_list, configuring a
\* logger that its caller also attaches handlers to
\* ---------------------------------------------------------------------------
\* longest stream_list a StdLoggerConfigurator is built with
MaxStreams == 2

StdStreamLists == UNION {[1..n -> Streams] : n \in 0..MaxStreams}
StdLevels == {PyInt(WARNING), PyStr("DEBUG")}

\* {stream: fmt for stream in stream_list}: a stream listed again keeps its place
RECURSIVE stream_list_mapper(_, _)
stream_list_mapper(stream_list, diff_fmt_per_level) ==
    IF stream_list = <<>> THEN <<>>
    ELSE LET n == Len(stream_list)
             rest == stream_list_mapper(SubSeq(stream_list, 1, n - 1), diff_fmt_per_level)
             fmt == IF diff_fmt_per_level THEN DiffFmt ELSE SameFmt("SHORTER_LOG_FMT")
         IN IF stream_list[n] \in MapKeys(rest) THEN rest
            ELSE Append(rest, [stream |-> stream_list[n], fmt |-> fmt])

\* StdLoggerConfigurator(level=..., stream_list=..., diff_fmt_per_level=...) and
\* logging.getLogger(name) of a name not used before
InitStd ==
    /\ handlers = <<>>
    /\ formatters = <<>>
    /\ loggerLevel = 0
    /\ last \in {[op |-> "StdLoggerConfigurator", calls |-> <<>>, raised |-> "none",
                  warnings |-> <<>>, stream_list |-> sl, diff_fmt_per_level |-> d,
                  before |-> <<>>, foreign |-> FALSE, configured |-> 0] :
                    sl \in StdStreamLists, d \in BOOLEAN}
    /\ std \in {StdLoggerConfigurator(l, stream_list_mapper(last.stream_list,
                                                           last.diff_fmt_per_level), FALSE) :
                    l \in StdLevels}
    /\ dec = NoDec
    /\ ctorLevel = PyNone
    /\ pushed = <<>>

\* logger.addHandler(cls(...)) by the caller of the configurator
logger_addHandler(cls, stream) ==
    /\ Len(handlers) < MaxHandlers
    /\ (cls = "StreamHandler") <=> (stream \in Streams)
    /\ handlers' = addHandler(handlers, NewHandler(handlers, cls, stream))
    /\ last' = [last EXCEPT !.op = "addHandler", !.foreign = TRUE]
    /\ UNCHANGED <<auxvars, formatters, ghostvars, env, pickvars, loggerLevel, std, dec, ctorLevel,
                   pushed, clonevars>>

\* std.configure(logger)
call_Std_configure ==
    LET r == Std_configure(std, Logger(loggerLevel, handlers, formatters))
    IN /\ Len(r.logger.handlers) <= 2 * MaxHandlers
       /\ handlers' = r.logger.handlers
       /\ formatters' = r.logger.formatters
       /\ loggerLevel' = r.logger.level
       /\ last' = [last EXCEPT !.op = "configure", !.raised = r.raised,
                               !.warnings = r.warnings, !.before = handlers,
                               !.configured = IF @ < 2 THEN @ + 1 ELSE @]
       /\ UNCHANGED <<auxvars, ghostvars, env, pickvars, std, dec, ctorLevel, pushed, clonevars>>

NextStd ==
    \/ \E cls \in {"StreamHandler", "Handler", "NullHandler"}, s \in Streams \cup {NoStream} :
          logger_addHandler(cls, s)
    \/ call_Std_configure

\* ---------------------------------------------------------------------------
\* Configurators built from one list object that the caller keeps
\* ---------------------------------------------------------------------------
\* env_list = [...]: the caller's list object and the names the caller wrote in it
InitCaller ==
    /\ lists \in {(1 :> names) : names \in CtorEnvLists}
    /\ cfgs = <<>>
    /\ cloned = [op |-> "list", env_list |-> 1, names |-> lists[1], new |-> 0]
    /\ stds = [u \in StdIds |-> StdLoggerConfigurator(PyInt(WARNING), <<>>, FALSE)]

\* EnvListLC(env_list, stds[u]) or VTEnvListLC(env_list, stds[u],
\* all_log_env_var=all_log_env_var), env_list being the caller's list object
MakeFromCallerList(cls, u, all_log_env_var) ==
    LET l == cloned.env_list
        r == IF cls = "VTEnvListLC"
             THEN VTEnvListLC_init(lists, cfgs, l, u, "get_first_non_none", all_log_env_var)
             ELSE EnvListLC_init(lists, cfgs, cls, l, u, "get_first_non_none", "")
    IN /\ Cardinality(DOMAIN cfgs) <= MaxCfgs
       /\ (cls = "VTEnvListLC") <=> (all_log_env_var # "")
       /\ lists' = r.lists
       /\ cfgs' = r.cfgs
       /\ cloned' = [cloned EXCEPT !.op = cls, !.new = r.new]
       /\ UNCHANGED <<auxvars, hvars, env, pickvars, chainvars, stds>>

NextCaller ==
    \E cls \in EnvClasses, u \in StdIds, a \in AllLogEnvVars \cup {""} :
        MakeFromCallerList(cls, u, a)

\* ---------------------------------------------------------------------------
\* Chains of configurators: decorators built over configurators that exist
\* already, their clones, and configure going down a chain call by call
\* ---------------------------------------------------------------------------
\* largest number of configurator objects of a chain model
MaxNodes == 3

NoRef == 0
NoTrav == [op |-> "none", outer |-> NoRef, at |-> NoRef, visited |-> <<>>, raised |-> "none"]
Node(cls, configurator) == [cls |-> cls, configurator |-> configurator]

\* the classes with an underlying configurator
DecoratorClasses ==
    {"SupplierLoggerConfigurator", "ListLoggerConfigurator", "VQCommLoggerConfigurator",
     "VQSepLoggerConfigurator"}
\* the classes with a clone_with
CloneableClasses == {"SupplierLoggerConfigurator", "ListLoggerConfigurator"}
\* the classes with a set_level
LevelTargets == {"StdLoggerConfigurator", "VQCommLoggerConfigurator"}
\* the classes whose configure calls set_level on the configurator underneath
LevelSetters ==
    {"SupplierLoggerConfigurator", "ListLoggerConfigurator", "VQCommLoggerConfigurator"}
\* the classes whose configure resolves a level in a way that can raise before the
\* configurator underneath is called: get_effective_level, the try block of
\* StdLoggerConfigurator.configure
LevelResolvers ==
    {"StdLoggerConfigurator", "VQCommLoggerConfigurator", "VQSepLoggerConfigurator"}

\* the nodes from n down, following underlying_configurator, fuel steps at most
RECURSIVE ChainFrom(_, _, _)
ChainFrom(nd, n, fuel) ==
    IF n = NoRef \/ fuel = 0 THEN <<>>
    ELSE <<n>> \o ChainFrom(nd, nd[n].configurator, fuel - 1)
Chain(nd, n) == ChainFrom(nd, n, Cardinality(DOMAIN nd))

InitNest ==
    /\ nodes = <<>>
    /\ trav = NoTrav

\* StdLoggerConfigurator()
MakeStdNode ==
    /\ trav.op # "running"
    /\ Cardinality(DOMAIN nodes) < MaxNodes
    /\ nodes' = nodes @@ (NewId(DOMAIN nodes) :> Node("StdLoggerConfigurator", NoRef))
    /\ UNCHANGED <<trav, hvars, env, pickvars, chainvars, clonevars, namevars, fmtCall, repovars>>

\* cls(..., configurator=u): the constructor stores the configurator it is given
MakeDecoratorNode(cls, u) ==
    /\ trav.op # "running"
    /\ Cardinality(DOMAIN nodes) < MaxNodes
    /\ u \in DOMAIN nodes
    /\ nodes' = nodes @@ (NewId(DOMAIN nodes) :> Node(cls, u))
    /\ UNCHANGED <<trav, hvars, env, pickvars, chainvars, clonevars, namevars, fmtCall, repovars>>

\* self.clone_with(configurator=u) when given, self.clone_with() otherwise
clone_node(self, given, u) ==
    /\ trav.op # "running"
    /\ Cardinality(DOMAIN nodes) < MaxNodes
    /\ self \in DOMAIN nodes /\ u \in DOMAIN nodes
    /\ nodes[self].cls \in CloneableClasses
    /\ nodes' = nodes @@ (NewId(DOMAIN nodes) :>
                            Node(nodes[self].cls,
                                 IF given THEN u ELSE self_configurator(nodes, self)))
    /\ UNCHANGED <<trav, hvars, env, pickvars, chainvars, clonevars, namevars, fmtCall, repovars>>

\* n.configure(logger) is called
call_configure(n) ==
    /\ trav.op # "running"
    /\ n \in DOMAIN nodes
    /\ trav' = [op |-> "running", outer |-> n, at |-> n, visited |-> <<n>>, raised |-> "none"]
    /\ UNCHANGED <<nodes, hvars, env, pickvars, chainvars, clonevars, namevars, fmtCall, repovars>>

\* the body of the configure that is running: the level is resolved (fails says
\* that this raises), set_level is called on the configurator underneath (an
\* AttributeError when it has none) and then its configure; the innermost
\* configure returns, and every configure above it with it
configure_step(fails) ==
    LET nd == nodes[trav.at]
        under == nd.configurator
    IN /\ trav.op = "running"
       /\ Len(trav.visited) <= MaxNodes
       /\ fails => nd.cls \in LevelResolvers
       /\ trav' = IF fails
                  THEN [trav EXCEPT !.op = "raised", !.raised = "resolving"]
                  ELSE IF under = NoRef
                  THEN [trav EXCEPT !.op = "returned"]
                  ELSE IF nd.cls \in LevelSetters /\ nodes[under].cls \notin LevelTargets
                  THEN [trav EXCEPT !.op = "raised", !.raised = "AttributeError"]
                  ELSE [trav EXCEPT !.at = under, !.visited = Append(@, under)]
       /\ UNCHANGED <<nodes, hvars, env, pickvars, chainvars, clonevars, namevars, fmtCall, repovars>>

NextNest ==
    \/ MakeStdNode
    \/ \E cls \in DecoratorClasses, u \in 1..MaxNodes : MakeDecoratorNode(cls, u)
    \/ \E self \in 1..MaxNodes, given \in BOOLEAN, u \in 1..MaxNodes : clone_node(self, given, u)
    \/ \E n \in 1..MaxNodes : call_configure(n)
    \/ \E fails \in BOOLEAN : configure_step(fails)

\* ---------------------------------------------------------------------------
\* logging's level-name tables, TempSetLevelName and cmd
\* ---------------------------------------------------------------------------
CMD_LOG_LEVEL == 28
CMD_LOG_STR == "COMMAND"

\* the levels of the model: one that logging names itself, and the command level
NameLevels == {DEBUG, CMD_LOG_LEVEL}
\* level_name / cmd_name arguments: None, the empty string, a blank string, a name
LevelNameArgs == {PyNone, PyStr(""), PyStr("  "), PyStr("BUILD")}
RevertingNames == {CMD_LOG_STR, "DEBUG"}
\* names register_levels is called with for the command level: the one of
\* DEFAULT_LEVEL_MAP and one of the caller's
RegisteredCmdNames == {CMD_LOG_STR, "ANO-CMD"}
\* logger.getEffectiveLevel() when cmd is called
EffectiveLevels == {DEBUG, WARNING}

\* str.strip() on the strings of the model
Strip(s) == IF s \in {"", "  "} THEN "" ELSE s

\* logging.getLevelName(level): the registered name, "Level %s" when there is none
getLevelName(t, level) ==
    IF level \in DOMAIN t.levelToName THEN t.levelToName[level]
    ELSE IF level = CMD_LOG_LEVEL THEN "Level 28" ELSE "Level 10"

\* logging.addLevelName(level, name): _levelToName[level] = name and
\* _nameToLevel[name] = level; the entry of the name the level had stays
addLevelName(t, level, name) ==
    [levelToName |-> [l \in DOMAIN t.levelToName \cup {level} |->
                         IF l = level THEN name ELSE t.levelToName[l]],
     nameToLevel |-> [n \in DOMAIN t.nameToLevel \cup {name} |->
                         IF n = name THEN level ELSE t.nameToLevel[n]]]

\* TempSetLevelName.__init__; the fields after no_warn record the with block
TempSetLevelName(t, level, level_name, reverting_lvl_name, via) ==
    [pc |-> "inside", level |-> level, level_name |-> level_name,
     reverting_lvl_name |-> reverting_lvl_name, no_warn |-> FALSE,
     original_level_name |-> getLevelName(t, level),
     via |-> via, before |-> t, enabled |-> TRUE, exc |-> FALSE, warned |-> FALSE]

\* TempSetCmdLvlName.__init__
TempSetCmdLvlName(t, cmd_name) ==
    TempSetLevelName(t, CMD_LOG_LEVEL, cmd_name, CMD_LOG_STR, "cmd")

NoCtx ==
    [pc |-> "none", level |-> DEBUG, level_name |-> PyNone, reverting_lvl_name |-> "",
     no_warn |-> FALSE, original_level_name |-> "", via |-> "none",
     before |-> [levelToName |-> <<>>, nameToLevel |-> <<>>],
     enabled |-> TRUE, exc |-> FALSE, warned |-> FALSE]

\* TempSetLevelName.__enter__
TempSetLevelName_enter(t, c) ==
    IF c.level_name.ty # "NoneType" /\ Strip(c.level_name.s) # ""
    THEN addLevelName(t, c.level, c.level_name.s)
    ELSE t

\* warn_user is reached in __enter__ and warns
TempSetLevelName_warns(c) ==
    c.level_name.ty # "NoneType" /\ Strip(c.level_name.s) = "" /\ ~c.no_warn

\* TempSetLevelName.__exit__
TempSetLevelName_exit(t, c) ==
    IF Truthy(c.level_name)
    THEN addLevelName(t, c.level, c.reverting_lvl_name)
    ELSE addLevelName(t, c.level, c.original_level_name)

\* the tables as logging has them when it is imported
InitNames ==
    /\ levelNames = [levelToName |-> (DEBUG :> "DEBUG"), nameToLevel |-> ("DEBUG" :> DEBUG)]
    /\ ctx = NoCtx

\* DirectAllLevelLogger.register_levels({CMD_LOG_LEVEL: name})
register_levels(name) ==
    /\ ctx.pc # "inside"
    /\ levelNames' = addLevelName(levelNames, CMD_LOG_LEVEL, name)
    /\ ctx' = NoCtx
    /\ UNCHANGED <<hvars, env, pickvars, chainvars, clonevars, nestvars, fmtCall, repovars>>

\* "with TempSetLevelName(level, level_name, reverting_lvl_name):" is entered
with_enter(level, level_name, reverting_lvl_name) ==
    LET c == TempSetLevelName(levelNames, level, level_name, reverting_lvl_name, "with")
    IN /\ ctx.pc # "inside"
       /\ levelNames' = TempSetLevelName_enter(levelNames, c)
       /\ ctx' = [c EXCEPT !.warned = TempSetLevelName_warns(c)]
       /\ UNCHANGED <<hvars, env, pickvars, chainvars, clonevars, nestvars, fmtCall, repovars>>

\* the with block is left, by its end or (exc) by an exception
with_exit(exc) ==
    /\ ctx.pc = "inside"
    /\ levelNames' = TempSetLevelName_exit(levelNames, ctx)
    /\ ctx' = [ctx EXCEPT !.pc = "left", !.exc = exc]
    /\ UNCHANGED <<hvars, env, pickvars, chainvars, clonevars, nestvars, fmtCall, repovars>>

\* DirectAllLevelLoggerImpl.cmd(msg, cmd_name) on a logger of the effective level
\* given; exc says that underlying_logger.log raised
cmd(cmd_name, effective_level, exc) ==
    LET c == TempSetCmdLvlName(levelNames, cmd_name)
        enabled == CMD_LOG_LEVEL >= effective_level
    IN /\ ctx.pc # "inside"
       /\ exc => enabled
       /\ levelNames' = IF enabled
                        THEN TempSetLevelName_exit(TempSetLevelName_enter(levelNames, c), c)
                        ELSE levelNames
       /\ ctx' = [c EXCEPT !.pc = "left", !.enabled = enabled, !.exc = exc,
                           !.warned = enabled /\ TempSetLevelName_warns(c)]
       /\ UNCHANGED <<hvars, env, pickvars, chainvars, clonevars, nestvars, fmtCall, repovars>>

NextNames ==
    \/ \E name \in RegisteredCmdNames : register_levels(name)
    \/ \E level \in NameLevels, level_name \in LevelNameArgs, r \in RevertingNames :
          with_enter(level, level_name, r)
    \/ \E exc \in BOOLEAN : with_exit(exc)
    \/ \E cmd_name \in LevelNameArgs, l \in EffectiveLevels, exc \in BOOLEAN :
          cmd(cmd_name, l, exc)

\* ---------------------------------------------------------------------------
\* StdLogAllLevelDiffFmt: one object and calls of its fmt
\* ---------------------------------------------------------------------------
\* largest level of the fmt_dict arguments of the model
MaxFmtLevel == 6

\* fmt_dict arguments: None, {}, and the dicts over some of three levels
FmtDictLevels == {l \in 1..MaxFmtLevel : l % 2 = 1}
FmtDictFormats == [l \in FmtDictLevels |-> <<"fmt of level", l>>]
FmtDictArgs ==
    {[none |-> TRUE, dict |-> <<>>]}
    \cup {[none |-> FALSE, dict |-> [l \in S |-> FmtDictFormats[l]]] : S \in SUBSET FmtDictLevels}
\* levels fmt is asked for: around the levels of the arguments, and around those
\* of DEFAULT_LOGGER_DICT
FmtQueryLevels == (-1..MaxFmtLevel) \cup {DEBUG, DEBUG + 5, INFO, WARNING, ERROR}

\* StdLogAllLevelDiffFmt.__init__: self._fmt_dict
StdLogAllLevelDiffFmt_init(arg) ==
    IF arg.none \/ DOMAIN arg.dict = {} THEN DEFAULT_LOGGER_DICT ELSE arg.dict

\* StdLogAllLevelDiffFmt.fmt
StdLogAllLevelDiffFmt_fmt(fmt_dict, level) ==
    LET final == IF level \in DOMAIN fmt_dict THEN level
                 ELSE next_approx_level(fmt_dict, level)
    IN fmt_dict[final]

\* StdLogAllLevelDiffFmt(fmt_dict)
InitFmt ==
    fmtCall \in {[op |-> "StdLogAllLevelDiffFmt", arg |-> a,
                  fmt_dict |-> StdLogAllLevelDiffFmt_init(a), level |-> 0, result |-> ""] :
                    a \in FmtDictArgs}

\* self.fmt(level)
call_fmt(level) ==
    /\ fmtCall' = [fmtCall EXCEPT !.op = "fmt", !.level = level,
                                  !.result = StdLogAllLevelDiffFmt_fmt(fmtCall.fmt_dict, level)]
    /\ UNCHANGED <<hvars, env, pickvars, chainvars, clonevars, nestvars, namevars, repovars>>

NextFmt == \E level \in FmtQueryLevels : call_fmt(level)

\* ---------------------------------------------------------------------------
\* DictRepo over a FilePersister
\* ---------------------------------------------------------------------------
RepoIds == {"a", "b"}
\* **attrs of an index call
RepoAttrs == {("level" :> "DEBUG"), ("level" :> "INFO"), ("name" :> "app")}

\* the file of the persister: absent, empty as init creates it, or the JSON text
\* of a payload (ids and attribute values are strings, which JSON gives back as
\* they were)
NoFile == [state |-> "absent", payload |-> <<>>]
EmptyFile == [state |-> "empty", payload |-> <<>>]
JsonFile(ds) == [state |-> "json", payload |-> ds]

NoRepoCall == [op |-> "none", id |-> "", raised |-> "none", result |-> <<>>,
               before |-> <<>>, file_before |-> NoFile]

\* dict.update
DictUpdate(old, new) ==
    [n \in DOMAIN old \cup DOMAIN new |-> IF n \in DOMAIN new THEN new[n] ELSE old[n]]
\* d[key] = value
DictPut(d, key, value) == [k \in DOMAIN d \cup {key} |-> IF k = key THEN value ELSE d[k]]

\* self.repo[id_]: a defaultdict(dict) makes and stores an empty dict for a key
\* it does not have, a plain dict raises KeyError
RepoGetItem(r, id) ==
    IF id \in DOMAIN r.index
    THEN [raised |-> "none", value |-> r.index[id], repo |-> r]
    ELSE IF r.kind = "defaultdict"
    THEN [raised |-> "none", value |-> <<>>, repo |-> [r EXCEPT !.index = DictPut(@, id, <<>>)]]
    ELSE [raised |-> "KeyError", value |-> <<>>, repo |-> r]

\* FilePersister.reload: json.loads(self.file_path.read_text())
FilePersister_reload(f) ==
    IF f.state = "absent" THEN [raised |-> "FileNotFoundError", ds |-> <<>>]
    ELSE IF f.state = "empty" THEN [raised |-> "JSONDecodeError", ds |-> <<>>]
    ELSE [raised |-> "none", ds |-> f.payload]

\* DictRepo(FilePersister()): the file is whatever an earlier run left
InitRepo ==
    /\ repo = [kind |-> "defaultdict", index |-> <<>>]
    /\ file \in {NoFile, EmptyFile, JsonFile(("a" :> ("level" :> "INFO")))}
    /\ repoCall = NoRepoCall

\* DictRepo.init
repo_init ==
    /\ file' = IF file.state = "absent" THEN EmptyFile ELSE file
    /\ repoCall' = [NoRepoCall EXCEPT !.op = "init", !.before = repo.index,
                                      !.file_before = file]
    /\ UNCHANGED <<repo, hvars, env, pickvars, chainvars, clonevars, nestvars, namevars, fmtCall>>

\* DictRepo.index(id_, **attrs)
repo_index(id, attrs) ==
    LET g == RepoGetItem(repo, id)
    IN /\ repo' = IF g.raised # "none" THEN repo
                  ELSE [g.repo EXCEPT !.index = DictPut(@, id, DictUpdate(g.value, attrs))]
       /\ repoCall' = [NoRepoCall EXCEPT !.op = "index", !.id = id, !.raised = g.raised,
                                         !.before = repo.index, !.file_before = file]
       /\ UNCHANGED <<file, hvars, env, pickvars, chainvars, clonevars, nestvars, namevars,
                      fmtCall>>

\* DictRepo.commit
repo_commit ==
    /\ file' = JsonFile(repo.index)
    /\ repoCall' = [NoRepoCall EXCEPT !.op = "commit", !.before = repo.index,
                                      !.file_before = file]
    /\ UNCHANGED <<repo, hvars, env, pickvars, chainvars, clonevars, nestvars, namevars, fmtCall>>

\* DictRepo.reload
repo_reload ==
    LET l == FilePersister_reload(file)
    IN /\ repo' = IF l.raised # "none" THEN repo ELSE [kind |-> "dict", index |-> l.ds]
       /\ repoCall' = [NoRepoCall EXCEPT !.op = "reload", !.raised = l.raised,
                                         !.before = repo.index, !.file_before = file]
       /\ UNCHANGED <<file, hvars, env, pickvars, chainvars, clonevars, nestvars, namevars,
                      fmtCall>>

\* DictRepo.read(id_): self.repo[id_].copy()
repo_read(id) ==
    LET g == RepoGetItem(repo, id)
    IN /\ repo' = g.repo
       /\ repoCall' = [NoRepoCall EXCEPT !.op = "read", !.id = id, !.raised = g.raised,
                                         !.result = g.value, !.before = repo.index,
                                         !.file_before = file]
       /\ UNCHANGED <<file, hvars, env, pickvars, chainvars, clonevars, nestvars, namevars,
                      fmtCall>>

NextRepo ==
    \/ repo_init
    \/ \E id \in RepoIds, attrs \in RepoAttrs : repo_index(id, attrs)
    \/ repo_commit
    \/ repo_reload
    \/ \E id \in RepoIds : repo_read(id)

\* ---------------------------------------------------------------------------
\* Specifications
\* ---------------------------------------------------------------------------
\* the variables a specification does not use stay as they are here
IdleEnv == env = <<>>
IdlePick == pick = NoPick /\ vqCall = NoVQ
IdleLogger == InitH
IdleChain ==
    /\ loggerLevel = 0
    /\ std = StdLoggerConfigurator(PyInt(WARNING), STDERR_ALL_LVL_SAME_FMT, FALSE)
    /\ dec = NoDec
    /\ ctorLevel = PyNone
    /\ pushed = <<>>
    /\ last = NoLast
IdleClone == InitClone
IdleNest == InitNest
IdleNames == levelNames = <<>> /\ ctx = NoCtx
IdleFmt == fmtCall = [op |-> "none"]
IdleRepo == repo = [kind |-> "none", index |-> <<>>] /\ file = NoFile /\ repoCall = NoRepoCall
IdleAux == IdleNest /\ IdleNames /\ IdleFmt /\ IdleRepo

\* a logger under simple_handlr_cfgr
Init == InitH /\ IdleEnv /\ IdlePick /\ IdleChain /\ IdleClone /\ IdleAux
Next == NextH
Spec == Init /\ [][Next]_vars

\* one call of a level pickup on drawn inputs
InitPickSpec == InitPick /\ vqCall = NoVQ /\ IdleLogger /\ IdleChain /\ IdleClone /\ IdleAux
SpecPick == InitPickSpec /\ [][NextPick]_vars

\* a StdLoggerConfigurator, its decorator, the environment and a logger
InitChainSpec ==
    /\ InitChain
    /\ propagate = TRUE /\ lastCall = NoCall /\ created = {}
    /\ preSlot = [s \in Streams |-> "absent"] /\ preLen = 0
    /\ twice = FALSE /\ growing = TRUE
    /\ IdlePick /\ IdleClone
    /\ IdleAux
SpecChain == InitChainSpec /\ [][NextChain]_vars

\* EnvListLC / VTEnvListLC objects being made, cloned and dropped
InitCloneSpec == InitClone /\ IdleLogger /\ IdleEnv /\ IdlePick /\ IdleChain /\ IdleAux
SpecClone == InitCloneSpec /\ [][NextClone]_vars

\* one call of the VQ component on drawn inputs
InitVQSpec == InitVQ /\ pick = NoPick /\ IdleLogger /\ IdleEnv /\ IdleChain /\ IdleClone /\ IdleAux
SpecVQ == InitVQSpec /\ [][NextVQ]_vars

\* the same objects with the program changing the lists they hold
InitIsolateSpec == InitClone /\ IdleLogger /\ IdleEnv /\ IdlePick /\ IdleChain /\ IdleAux
SpecIsolate == InitIsolateSpec /\ [][NextIsolate]_vars

\* the same objects configuring the logger through the configurators they share
InitShareSpec == InitClone /\ IdleLogger /\ IdleEnv /\ IdlePick /\ IdleChain /\ IdleAux
SpecShare == InitShareSpec /\ [][NextShare]_vars

\* a StdLoggerConfigurator built from a stream_list and a logger
InitStdSpec ==
    /\ InitStd
    /\ propagate = TRUE /\ lastCall = NoCall /\ created = {}
    /\ preSlot = [s \in Streams |-> "absent"] /\ preLen = 0
    /\ twice = FALSE /\ growing = TRUE
    /\ IdleEnv /\ IdlePick /\ IdleClone
    /\ IdleAux
SpecStd == InitStdSpec /\ [][NextStd]_vars

\* configurators built from a list the caller keeps
InitCallerSpec == InitCaller /\ IdleLogger /\ IdleEnv /\ IdlePick /\ IdleChain /\ IdleAux
SpecCaller == InitCallerSpec /\ [][NextCaller]_vars

\* configurators decorating one another and a configure running down the chain;
\* a configure that has been called runs on: the interpreter executes the next
\* statement of the running call
InitNestSpec ==
    /\ InitNest
    /\ IdleLogger /\ IdleEnv /\ IdlePick /\ IdleChain /\ IdleClone
    /\ IdleNames /\ IdleFmt /\ IdleRepo
SpecNest ==
    InitNestSpec /\ [][NextNest]_vars /\ WF_vars(\E fails \in BOOLEAN : configure_step(fails))

\* the level-name tables under register_levels, with blocks and cmd
InitNamesSpec ==
    /\ InitNames
    /\ IdleLogger /\ IdleEnv /\ IdlePick /\ IdleChain /\ IdleClone
    /\ IdleNest /\ IdleFmt /\ IdleRepo
SpecNames == InitNamesSpec /\ [][NextNames]_vars

\* one StdLogAllLevelDiffFmt object asked for formats
InitFmtSpec ==
    /\ InitFmt
    /\ IdleLogger /\ IdleEnv /\ IdlePick /\ IdleChain /\ IdleClone
    /\ IdleNest /\ IdleNames /\ IdleRepo
SpecFmt == InitFmtSpec /\ [][NextFmt]_vars

\* a DictRepo being initialised, indexed, committed, reloaded and read
InitRepoSpec ==
    /\ InitRepo
    /\ IdleLogger /\ IdleEnv /\ IdlePick /\ IdleChain /\ IdleClone
    /\ IdleNest /\ IdleNames /\ IdleFmt
SpecRepo == InitRepoSpec /\ [][NextRepo]_vars

TypeOK ==
    /\ \A i \in 1..Len(handlers) : handlers[i].formatter \in DOMAIN formatters \cup {NoFormatter}
    /\ \A i, j \in 1..Len(handlers) : i # j => handlers[i].id # handlers[j].id
\* ---------------------------------------------------------------------------
\* Properties of simple_handlr_cfgr
\* ---------------------------------------------------------------------------
\* the last operation was a call of simple_handlr_cfgr, with a non-empty map
Called == lastCall # NoCall
CalledNonEmpty == lastCall # NoCall /\ lastCall.map # <<>>
\* the format the last call rendered for stream s
Rendered(s) == Fmt(lastCall.map[MapGet(lastCall.map, s)].fmt, lastCall.level)

\* C1: after two identical calls in a row with the map {s: f} on a logger that
\* had no handler bound to s, exactly one handler is bound to s, the second call
\* created no handler, and the handler's format string is f.fmt(level).
C1_ReconcileTwice ==
    twice =>
        LET s == lastCall.map[1].stream
        IN /\ Len(OnStream(handlers, s)) = 1
           /\ created = {}
           /\ Len(handlers) = preLen
           /\ FmtOf(OnStream(handlers, s)[1], formatters) = Rendered(s)

C1_Witness == twice /\ Len(handlers) >= 2

\* C2: after a call with an empty map the logger holds exactly one handler, a
\* NullHandler, whatever it held before.
C2_EmptyMapWipe ==
    (Called /\ lastCall.map = <<>>) =>
        /\ Len(handlers) = 1
        /\ handlers[1].cls = "NullHandler"

C2_Witness == Called /\ lastCall.map = <<>> /\ preLen >= 3 /\ Len(handlers) = 1

\* C3: from a logger without handlers, after calls with non-empty maps whose
\* stream sets grow, there is exactly one handler per stream seen and no other,
\* each with the format rendered by the latest call; a stream seen before keeps
\* its handler object.
C3_State ==
    (growing /\ Called) =>
        /\ \A s \in MapKeys(lastCall.map) :
              /\ Len(OnStream(handlers, s)) = 1
              /\ FmtOf(OnStream(handlers, s)[1], formatters) = Rendered(s)
        /\ Len(handlers) = Cardinality(MapKeys(lastCall.map))
        /\ created = {s \in Streams : preSlot[s] = "absent" /\ s \in MapKeys(lastCall.map)}

C3_Step ==
    (growing' /\ lastCall # NoCall) =>
        \A s \in MapKeys(lastCall.map) :
            OnStream(handlers', s)[1].id = OnStream(handlers, s)[1].id

C3_AdditiveConvergence == [](C3_State) /\ [][C3_Step]_vars

C3_Witness ==
    /\ growing /\ Called
    /\ Len(lastCall.map) = 2
    /\ Cardinality(created) = 1
    /\ \E s \in Streams : preSlot[s] = "present-with-formatter"

\* C4 as stated: a call with a non-empty map leaves every handler that is not a
\* stream handler of a stream of the map attached, with the same formatter
\* object and the same format string.
C4_Step ==
    (lastCall' # NoCall /\ lastCall'.map # <<>>) =>
        \A i \in 1..Len(handlers) :
            (handlers[i].cls # "StreamHandler" \/ handlers[i].stream \notin MapKeys(lastCall'.map)) =>
                /\ i <= Len(handlers')
                /\ handlers'[i] = handlers[i]
                /\ FmtOf(handlers'[i], formatters') = FmtOf(handlers[i], formatters)

C4_OthersUntouched == [][C4_Step]_vars

\* C5 as stated: of several handlers bound to a stream of the map, only the first
\* gets another formatter or format string, and their number stays.
C5_Step ==
    (lastCall' # NoCall /\ lastCall'.map # <<>>) =>
        \A s \in MapKeys(lastCall'.map) :
            LET before == OnStream(handlers, s)
                after == OnStream(handlers', s)
            IN Len(before) >= 2 =>
                /\ Len(after) = Len(before)
                /\ \A k \in 2..Len(before) :
                      /\ after[k] = before[k]
                      /\ FmtOf(after[k], formatters') = FmtOf(before[k], formatters)

C5_OnlyFirstUpdated == [][C5_Step]_vars

\* C6: in a call of simple_handlr_cfgr the slot of a stream goes from absent to
\* with-formatter by one new handler, from without-formatter to with-formatter
\* by a new formatter on the same handler, from with-formatter to with-formatter
\* with the same handler and formatter object, or stays; it becomes absent only
\* in a call with an empty map.
C6_Step ==
    lastCall' # NoCall =>
        \A s \in Streams :
            LET a == Slot(handlers, s)
                b == Slot(handlers', s)
                before == OnStream(handlers, s)
                after == OnStream(handlers', s)
            IN /\ (s \in MapKeys(lastCall'.map)) => b = "present-with-formatter"
               /\ (a = "absent" /\ b # "absent") =>
                     b = "present-with-formatter" /\ Len(after) = 1
               /\ (a # "absent" /\ b = "absent") => lastCall'.map = <<>>
               /\ (a # "absent" /\ b # "absent") =>
                     /\ Len(after) = Len(before)
                     /\ after[1].id = before[1].id
               /\ (a = "present-no-formatter" /\ b # "absent") =>
                     \/ b = "present-no-formatter" /\ after = before
                     \/ b = "present-with-formatter" /\ after[1].formatter \notin DOMAIN formatters
               /\ (a = "present-with-formatter" /\ b # "absent") =>
                     b = "present-with-formatter" /\ after = before

C6_SlotTransitions == [][C6_Step]_vars

C6_Witness ==
    /\ CalledNonEmpty
    /\ \E s \in Streams :
          preSlot[s] = "present-no-formatter" /\ Slot(handlers, s) = "present-with-formatter"
    /\ \E s \in Streams :
          preSlot[s] = "present-with-formatter" /\ s \in MapKeys(lastCall.map)

\* ---------------------------------------------------------------------------
\* Properties of the level pickup
\* ---------------------------------------------------------------------------
\* C8: get_first_non_none returns the first entry of the list that is not None,
\* the default when there is none, and leaves the list as it was; an EnvListLC
\* resolves to the value of the first of its names that is set in the
\* environment, whatever the later names hold, and to None when none is set.
C8_FirstPresentWins ==
    /\ pick.op = "get_first_non_none" =>
          LET present == {i \in 1..Len(pick.passed) : pick.passed[i] # PyNone}
          IN /\ pick.list = pick.passed
             /\ present = {} => pick.result = pick.default
             /\ \A i \in present :
                   (\A j \in present : i <= j) => pick.result = pick.passed[i]
    /\ pick.op = "resolve" =>
          /\ \A k \in 1..Len(pick.env_list) :
                (/\ env[pick.env_list[k]] # PyNone
                 /\ \A j \in 1..(k - 1) : env[pick.env_list[j]] = PyNone)
                    => pick.result = env[pick.env_list[k]]
          /\ (\A k \in 1..Len(pick.env_list) : env[pick.env_list[k]] = PyNone)
                => pick.result = PyNone

C8_Witness ==
    /\ pick.op = "resolve"
    /\ pick.env_list = <<"A", "B", "C">>
    /\ env["A"] = PyNone /\ env["B"] # PyNone /\ env["C"] # PyNone
    /\ env["C"] # env["B"]
    /\ pick.result = env["B"]

\* ---------------------------------------------------------------------------
\* Properties of the configurator chain
\* ---------------------------------------------------------------------------
\* the level the decorator in dec resolves to
Resolved ==
    CASE dec.cls = "SupplierLoggerConfigurator" -> dec.level_supplier
      [] dec.cls \in {"ListLoggerConfigurator", "EnvListLC"} -> final_level(dec)
      [] dec.cls = "VQCommLoggerConfigurator" ->
            VQCommon_get_effective_level(dec.ver_qui, dec.default_log_level,
                                         dec.warn_only).level
      [] dec.cls = "VQSepLoggerConfigurator" ->
            VQSepExclusive_get_effective_level(dec.verbosity, dec.quietness,
                                               dec.default_log_level, dec.warn_only).level

\* C7 as stated: when configure of a decorator returns, the decorator has called
\* set_level with its resolved level on the underlying configurator, then
\* configure, with no configure before the set_level, and the handlers the
\* underlying configurator added carry the formats of the resolved level.
C7_ResolveThenApply ==
    (last.op = "configure" /\ dec # NoDec /\ last.raised = "none") =>
        /\ \E i, j \in 1..Len(last.calls) :
              /\ i < j
              /\ last.calls[i] = Call("set_level", Resolved)
              /\ last.calls[j].op = "configure"
              /\ \A k \in 1..i : last.calls[k].op # "configure"
        /\ \A k \in 1..Len(std.stream_fmt_mapper) :
              FmtOf(handlers[Len(handlers) - Len(std.stream_fmt_mapper) + k], formatters)
                  = Fmt(std.stream_fmt_mapper[k].fmt, ResolveIntLevel(Resolved).int_level)

\* the value of the first of the names that is set in the environment now
CurrentLevel(env_list) ==
    LET present == {i \in 1..Len(env_list) : env[env_list[i]] # PyNone}
    IN IF present = {} THEN PyNone
       ELSE env[env_list[CHOOSE i \in present : \A j \in present : i <= j]]

\* C9: every configure of an EnvListLC pushes the level that the environment
\* holds at that call, whatever it held at construction or at an earlier
\* configure: set_level gets the value of the first name set now (None if none
\* is), and the logger ends at the level of that name.
C9_LazyEnvRead ==
    (last.op = "configure" /\ dec.cls = "EnvListLC") =>
        /\ Len(last.calls) >= 1
        /\ last.calls[1] = Call("set_level", CurrentLevel(dec.env_list))
        /\ std.level = CurrentLevel(dec.env_list)
        /\ CurrentLevel(dec.env_list) # PyNone =>
              /\ last.raised = "none"
              /\ loggerLevel = LevelNamesMapping[CurrentLevel(dec.env_list).s]

C9_Witness ==
    /\ last.op = "configure" /\ dec.cls = "EnvListLC" /\ last.raised = "none"
    /\ Len(pushed) = 2
    /\ pushed[1] # PyNone /\ pushed[1] # pushed[2]
    /\ ctorLevel # PyNone /\ ctorLevel # pushed[2]
    /\ env[dec.env_list[1]] = PyNone

\* ---------------------------------------------------------------------------
\* Properties of cloning
\* ---------------------------------------------------------------------------
\* C10 as stated: clone_with_envs returns another configurator, the original's
\* env_list holds what it held, and the new env_list is the names followed by
\* the original's env_list, or the original's env_list followed by the names
\* when low_precedence is given, for EnvListLC and for VTEnvListLC.
C10_CloneWithEnvs ==
    cloned.op = "clone_with_envs" =>
        /\ cloned.new # cloned.self
        /\ cfgs[cloned.new].cls = cfgs[cloned.self].cls
        /\ lists[cfgs[cloned.self].env_list] = cloned.before
        /\ lists[cfgs[cloned.new].env_list] =
              IF cloned.low_precedence THEN cloned.before \o cloned.envs
              ELSE cloned.envs \o cloned.before

\* C11 as stated: clone_with returns another object of the class of the
\* original; each field of it is the keyword's value where the keyword was
\* given (the list given holding what it held when it was passed) and the
\* original's otherwise (the list holding what the original's held), for
\* SupplierLoggerConfigurator, ListLoggerConfigurator, EnvListLC and VTEnvListLC.
C11_StructuralClone ==
    cloned.op = "clone_with" =>
        LET o == cloned.before.cfg
            n == cfgs[cloned.new]
            kw == cloned.kwargs
        IN /\ cloned.new # cloned.self
           /\ n.cls = o.cls
           /\ n.configurator = IF "configurator" \in DOMAIN kw THEN kw.configurator
                               ELSE o.configurator
           /\ o.cls = "SupplierLoggerConfigurator" =>
                 n.level_supplier = IF "level_supplier" \in DOMAIN kw THEN kw.level_supplier
                                    ELSE o.level_supplier
           /\ o.cls \in ListClasses =>
                 /\ n.level_pickup_strategy =
                       IF "level_pickup_strategy" \in DOMAIN kw THEN kw.level_pickup_strategy
                       ELSE o.level_pickup_strategy
                 /\ cloned.list_given => ListOf(n) = kw[ListKey(o.cls)]
                 /\ ItemsOf(lists, n) = IF cloned.list_given THEN cloned.passed
                                        ELSE cloned.before.items

\* C12: after a clone_with without a list keyword the original has the fields
\* it had, and its list holds what it held, right after the call and after any
\* number of appends to and pops from the clone's list.
C12_CloneIsolation ==
    (cloned.op \in {"clone_with", "list_changed"} /\ ~cloned.list_given) =>
        /\ cfgs[cloned.self] = cloned.before.cfg
        /\ ItemsOf(lists, cfgs[cloned.self]) = cloned.before.items

C12_Witness ==
    /\ cloned.op = "list_changed" /\ ~cloned.list_given
    /\ cfgs[cloned.new].cls \in {"ListLoggerConfigurator", "EnvListLC"}
    /\ cloned.before.items # <<>>
    /\ Len(ItemsOf(lists, cfgs[cloned.new])) # Len(cloned.before.items)

\* C13: after a clone_with the original references the underlying configurator
\* it referenced, and the clone references that same object, or the one given
\* as the configurator keyword; a configure of a clone made without the keyword
\* leaves the level it handed to set_level in the original's underlying
\* configurator.
C13_SharedUnderlying ==
    /\ cloned.op = "clone_with" =>
          /\ cfgs[cloned.self].configurator = cloned.before.cfg.configurator
          /\ cfgs[cloned.new].configurator =
                IF "configurator" \in DOMAIN cloned.kwargs THEN cloned.kwargs.configurator
                ELSE cfgs[cloned.self].configurator
    /\ (cloned.op = "configure" /\ ~cloned.configurator_given) =>
          stds[cfgs[cloned.self].configurator].level = cloned.final_level

C13_Witness ==
    /\ cloned.op = "configure" /\ ~cloned.configurator_given
    /\ cloned.final_level \notin {PyNone, PyInt(WARNING)}
    /\ stds[cfgs[cloned.self].configurator].level = cloned.final_level
    /\ \E u \in StdIds : stds[u].level # cloned.final_level

\* C14 as stated: a VTEnvListLC that was just constructed, or just returned by
\* clone_with or clone_with_envs, has a non-empty env_list whose last entry is
\* the catch-all it stands for.
C14_CatchAllLast ==
    (/\ cloned.op \in {"VTEnvListLC", "clone_with", "clone_with_envs"}
     /\ cfgs[cloned.new].cls = "VTEnvListLC") =>
        LET l == lists[cfgs[cloned.new].env_list]
        IN l # <<>> /\ l[Len(l)] = cfgs[cloned.new].catch_all

\* C15 as stated: ListLoggerConfigurator(level_list, ...) on a list raises
\* ValueError exactly when the list is empty; a list of None entries is accepted.
C15_EmptyLevelList ==
    (cloned.op = "ListLoggerConfigurator" /\ ~cloned.is_none) =>
        ((cloned.raised = "ValueError") <=> (cloned.levels = <<>>))

\* ---------------------------------------------------------------------------
\* Properties of the VQ component
\* ---------------------------------------------------------------------------
\* a token is given when it is neither None nor empty: the test the code makes
Given(token) == Truthy(token)
IsKey(token) == Given(token) /\ token.s \in DOMAIN VQ_LEVEL_MAP
MapValues == {PyInt(VQ_LEVEL_MAP[k]) : k \in DOMAIN VQ_LEVEL_MAP}
BothGiven == Given(vqCall.verbosity) /\ Given(vqCall.quietness)

\* C16: VQSepExclusive.get_effective_level with verbosity and quietness both
\* given raises ValueError when warn_only is false; when warn_only is true it
\* returns the default level, emits one warning, the one about the conflict,
\* and looks up nothing in the map.
C16_SepExclusive ==
    (vqCall.op = "VQSepExclusive.get_effective_level" /\ BothGiven) =>
        IF vqCall.warn_only
        THEN /\ vqCall.result.raised = "none"
             /\ vqCall.result.level = vqCall.default_level
             /\ Len(vqCall.result.warnings) = 1
             /\ vqCall.result.warnings[1].msg = "cannot be given together"
             /\ vqCall.result.lookups = <<>>
        ELSE vqCall.result.raised = "ValueError"

C16_Witness ==
    /\ vqCall.op = "VQSepExclusive.get_effective_level" /\ BothGiven /\ vqCall.warn_only
    /\ IsKey(vqCall.verbosity) /\ IsKey(vqCall.quietness)
    /\ vqCall.result.level = vqCall.default_level
    /\ vqCall.default_level \notin MapValues

\* C17: VQSepExclusive.get_effective_level with at most one of verbosity and
\* quietness given returns the map's level for the given token if it is a key,
\* the default level if none is given, and for a given token that is no key
\* the default level when warn_only is true and a KeyError when it is false.
C17_SepResolution ==
    (vqCall.op = "VQSepExclusive.get_effective_level" /\ ~BothGiven) =>
        /\ (~Given(vqCall.verbosity) /\ ~Given(vqCall.quietness)) =>
              /\ vqCall.result.raised = "none"
              /\ vqCall.result.level = vqCall.default_level
        /\ \A token \in {vqCall.verbosity, vqCall.quietness} :
              /\ IsKey(token) =>
                    /\ vqCall.result.raised = "none"
                    /\ vqCall.result.level = PyInt(VQ_LEVEL_MAP[token.s])
              /\ (Given(token) /\ ~IsKey(token)) =>
                    IF vqCall.warn_only
                    THEN /\ vqCall.result.raised = "none"
                         /\ vqCall.result.level = vqCall.default_level
                    ELSE vqCall.result.raised = "KeyError"

C17_Witness ==
    /\ vqCall.op = "VQSepExclusive.get_effective_level"
    /\ ~Given(vqCall.quietness) /\ IsKey(vqCall.verbosity)
    /\ vqCall.result.level = PyInt(VQ_LEVEL_MAP[vqCall.verbosity.s])
    /\ vqCall.result.level # vqCall.default_level

\* C18: VQCommon.validate raises nothing and says whether the token is a key of
\* the map; VQCommon.get_effective_level returns the default level when no
\* token is given, the map's level for a key, and for a given token that is no
\* key the default level with one warning that names the token and the keys
\* of the map when warn_only is true, a KeyError when it is false.
C18_Common ==
    /\ vqCall.op = "VQCommon.validate" =>
          /\ vqCall.result.raised = "none"
          /\ vqCall.result.valid = IsKey(vqCall.ver_qui)
    /\ vqCall.op = "VQCommon.get_effective_level" =>
          IF ~Given(vqCall.ver_qui)
          THEN /\ vqCall.result.raised = "none"
               /\ vqCall.result.level = vqCall.default_level
               /\ vqCall.result.warnings = <<>>
          ELSE IF IsKey(vqCall.ver_qui)
          THEN /\ vqCall.result.raised = "none"
               /\ vqCall.result.level = PyInt(VQ_LEVEL_MAP[vqCall.ver_qui.s])
               /\ vqCall.result.warnings = <<>>
          ELSE IF vqCall.warn_only
          THEN /\ vqCall.result.raised = "none"
               /\ vqCall.result.level = vqCall.default_level
               /\ Len(vqCall.result.warnings) = 1
               /\ vqCall.result.warnings[1].key = vqCall.ver_qui.s
               /\ vqCall.result.warnings[1].choices = VQ_KEYS
          ELSE vqCall.result.raised = "KeyError"

C18_Witness ==
    /\ vqCall.op = "VQCommon.get_effective_level" /\ vqCall.warn_only
    /\ Given(vqCall.ver_qui) /\ ~IsKey(vqCall.ver_qui)
    /\ Len(vqCall.result.warnings) = 1
    /\ vqCall.result.warnings[1].key = vqCall.ver_qui.s

\* C19: with warn_only true no call of validate or get_effective_level of
\* either class raises, and get_effective_level returns the default level or
\* a value of the map; with warn_only false the ValueError of the conflict and
\* the KeyError of a token that is no key are what the caller gets.
C19_ErrorPolicy ==
    vqCall.op # "none" =>
        /\ vqCall.warn_only =>
              /\ vqCall.result.raised = "none"
              /\ vqCall.op \in {"VQSepExclusive.get_effective_level",
                                "VQCommon.get_effective_level"} =>
                    vqCall.result.level \in {vqCall.default_level} \cup MapValues
        /\ ~vqCall.warn_only =>
              /\ (vqCall.op \in {"VQSepExclusive.validate",
                                 "VQSepExclusive.get_effective_level"} /\ BothGiven) =>
                    vqCall.result.raised = "ValueError"
              /\ (/\ vqCall.op = "VQSepExclusive.get_effective_level" /\ ~BothGiven
                  /\ \E token \in {vqCall.verbosity, vqCall.quietness} :
                        Given(token) /\ ~IsKey(token)) =>
                    vqCall.result.raised = "KeyError"
              /\ (/\ vqCall.op = "VQCommon.get_effective_level"
                  /\ Given(vqCall.ver_qui) /\ ~IsKey(vqCall.ver_qui)) =>
                    vqCall.result.raised = "KeyError"

C19_Witness ==
    /\ vqCall.op = "VQSepExclusive.validate" /\ ~vqCall.warn_only /\ BothGiven
    /\ vqCall.result.raised = "ValueError"

\* ---------------------------------------------------------------------------
\* Properties of StdLoggerConfigurator.configure
\* ---------------------------------------------------------------------------
\* a string that is neither a number nor a registered level name
Unregistered(level) ==
    /\ level.ty = "str"
    /\ level.s \notin DOMAIN DigitStrings
    /\ level.s \notin DOMAIN LevelNamesMapping
\* the warnings of the last operation that StdLoggerConfigurator.configure emits
StdWarnings ==
    SelectSeq(last.warnings,
              LAMBDA w : w.msg \in {"Undefined log level", "Setting log level to default"})

\* C20: a configure that reaches StdLoggerConfigurator.configure with a level
\* name that is not registered, no_warn being false, emits the undefined-level
\* warning, quoting the level and listing the registered names, and then the
\* falling-back warning, these two and in this order, and the logger is given
\* level WARNING; no other configure emits either of the two.
C20_TwoWarnings ==
    (last.op = "configure" /\ last.raised = "none") =>
        IF Unregistered(std.level) /\ ~std.no_warn
        THEN /\ StdWarnings = <<Message("Undefined log level", std.level.s, "", LevelChoices),
                                Message("Setting log level to default", "WARNING", "", <<>>)>>
             /\ dec.cls # "VQSepLoggerConfigurator" => loggerLevel = WARNING
        ELSE StdWarnings = <<>>

C20_Witness ==
    /\ last.op = "configure" /\ last.raised = "none"
    /\ Unregistered(std.level) /\ ~std.no_warn
    /\ Len(StdWarnings) = 2
    /\ loggerLevel = WARNING

\* C21: a configure that reaches StdLoggerConfigurator.configure with a level
\* name that is not registered, and so applies the default level, emits a
\* diagnostic or raises an error: the default is never applied silently.
C21_NeverSilentDefault ==
    (last.op = "configure" /\ Unregistered(std.level)) =>
        \/ last.raised # "none"
        \/ StdWarnings # <<>>

\* C22: a StdLoggerConfigurator.configure with an empty stream mapping leaves
\* the logger with exactly one handler, a NullHandler, whatever handlers the
\* logger had before the call.
C22_OnlyNullHandler ==
    (last.op = "configure" /\ last.raised = "none" /\ std.stream_fmt_mapper = <<>>) =>
        /\ Len(handlers) = 1
        /\ handlers[1].cls = "NullHandler"

\* C24: a StdLoggerConfigurator.configure with a non-empty stream mapping, on a
\* logger that holds no handler but those the configurator gave it, leaves the
\* logger with exactly one StreamHandler for each distinct stream of the
\* stream_list and no other handler, on the first configure and on a second.
C24_OneHandlerPerStream ==
    (/\ last.op = "configure" /\ last.raised = "none"
     /\ std.stream_fmt_mapper # <<>> /\ ~last.foreign) =>
        /\ \A s \in Streams :
              Len(OnStream(handlers, s)) =
                 IF \E i \in 1..Len(last.stream_list) : last.stream_list[i] = s THEN 1 ELSE 0
        /\ \A i \in 1..Len(handlers) : handlers[i].cls = "StreamHandler"

\* C25: a configure of a ListLoggerConfigurator or an EnvListLC whose candidate
\* levels are all absent (every list entry None, every named environment variable
\* unset) leaves the level of the underlying configurator as it was before the
\* call, raises nothing and configures the logger at that level.
C25_AbsentKeepsLevel ==
    [][(/\ dec.cls \in {"ListLoggerConfigurator", "EnvListLC"}
        /\ final_level(dec) = PyNone
        /\ last' # last /\ last'.op = "configure") =>
           /\ std'.level = std.level
           /\ last'.raised = "none"
           /\ loggerLevel' = ResolveIntLevel(std.level).int_level]_vars

\* ---------------------------------------------------------------------------
\* Properties of the constructors on a list the caller keeps
\* ---------------------------------------------------------------------------
\* C26: constructing a VTEnvListLC leaves the list object the caller passed as
\* env_list with the names the caller wrote, and every VTEnvListLC built from
\* that list holds exactly those names followed by its one catch-all name.
C26_CallerListUntouched ==
    cloned.op = "VTEnvListLC" =>
        /\ lists[cloned.env_list] = cloned.names
        /\ \A c \in DOMAIN cfgs :
              cfgs[c].cls = "VTEnvListLC" =>
                 ItemsOf(lists, cfgs[c]) = Append(cloned.names, cfgs[c].catch_all)

\* ---------------------------------------------------------------------------
\* Properties of configurator chains
\* ---------------------------------------------------------------------------
\* following underlying_configurator from every node ends, within as many steps
\* as there are nodes, at a node without an underlying configurator
Acyclic ==
    \A n \in DOMAIN nodes :
        LET c == Chain(nodes, n) IN nodes[c[Len(c)]].configurator = NoRef
\* s is the beginning of t
IsPrefix(s, t) == Len(s) <= Len(t) /\ SubSeq(t, 1, Len(s)) = s

C23_ChainOrder ==
    /\ Acyclic
    /\ trav.op # "none" =>
          /\ IsPrefix(trav.visited, Chain(nodes, trav.outer))
          /\ trav.at = trav.visited[Len(trav.visited)]
    /\ trav.op = "returned" => trav.visited = Chain(nodes, trav.outer)

C27_CmdRestoresNames ==
    (ctx.pc = "left" /\ ctx.via = "cmd") =>
        /\ \A l \in NameLevels : getLevelName(levelNames, l) = getLevelName(ctx.before, l)
        /\ ~ctx.enabled => levelNames = ctx.before

\* C28: when a "with TempSetLevelName(level, level_name, reverting_lvl_name)"
\* block has been left, by its end or by an exception, the name of level is
\* reverting_lvl_name, whatever level_name was; inside the block the name of
\* level is level_name when that is a non-blank string.
C28_RevertsToRevertingName ==
    ctx.via = "with" =>
        /\ ctx.pc = "left" => getLevelName(levelNames, ctx.level) = ctx.reverting_lvl_name
        /\ (/\ ctx.pc = "inside"
            /\ ctx.level_name.ty = "str" /\ Strip(ctx.level_name.s) # "") =>
              getLevelName(levelNames, ctx.level) = ctx.level_name.s

\* ---------------------------------------------------------------------------
\* Properties of StdLogAllLevelDiffFmt.fmt
\* ---------------------------------------------------------------------------
\* C29: fmt(level) is defined for every integer level: for a level of the dict
\* it is that level's format; for another level it is the format of the smallest
\* level of the dict greater than it, and the format of the largest level of the
\* dict when none is greater.
C29_FmtOfNextLevel ==
    fmtCall.op = "fmt" =>
        LET d == fmtCall.fmt_dict
            above == {k \in DOMAIN d : k > fmtCall.level}
        IN \E k \in DOMAIN d :
              /\ fmtCall.result = d[k]
              /\ fmtCall.level \in DOMAIN d => k = fmtCall.level
              /\ (fmtCall.level \notin DOMAIN d /\ above # {}) =>
                    (k \in above /\ \A j \in above : k <= j)
              /\ (fmtCall.level \notin DOMAIN d /\ above = {}) =>
                    \A j \in DOMAIN d : j <= k

C29_Witness ==
    /\ fmtCall.op = "fmt"
    /\ fmtCall.fmt_dict = DEFAULT_LOGGER_DICT
    /\ fmtCall.level = DEBUG + 5
    /\ fmtCall.result = "SHORT_LOG_FMT"

\* ---------------------------------------------------------------------------
\* Properties of DictRepo.read
\* ---------------------------------------------------------------------------
\* C30: in every state reached by init, index, commit and reload, read(id)
\* returns the attributes indexed for id, an empty mapping when none were, and
\* leaves the index (what read_all gives and the next commit writes) and the
\* file of the persister as they were.
C30_ReadChangesNothing ==
    repoCall.op = "read" =>
        /\ repoCall.raised = "none"
        /\ repoCall.result = IF repoCall.id \in DOMAIN repoCall.before
                             THEN repoCall.before[repoCall.id] ELSE <<>>
        /\ repo.index = repoCall.before
        /\ file = repoCall.file_before
====
